---- MODULE Spec2Model ----
(***************************************************************************)
(* A model of the UBX stream decoder of ubx-to-gpx: ubx.decode_msg, the    *)
(* frame state machine of src/ubxtool.py, its checksum and packet encoder, *)
(* the class/id dispatch tables with the payload decoders they name, and   *)
(* the caller loop of src/test.py (ubx_read) and gps_io.read that feeds    *)
(* it a file.                                                              *)
(*                                                                         *)
(* Bytes are the integers 0..255.  A Python str is the sequence of its     *)
(* character codes.  A formatted number ('%02x', '%#x', '%s' of an int)    *)
(* is kept as the number it prints, or as its pair of hex digits.          *)
(***************************************************************************)
EXTENDS Integers, Sequences, FiniteSets, TLC

(***************************************************************************)
(* The class / id dispatch tables.  An entry has a 'dec' field exactly     *)
(* when the source registers a payload decoder for it; the value is the    *)
(* name of the decoder method.                                             *)
(***************************************************************************)

(* ack_ids, src/ubxtool.py lines 1640-1641 *)
ack_ids ==
    (0 :> [str |-> "NAK", dec |-> "ack_ack", name |-> "UBX-ACK-NAK"])
    @@ (1 :> [str |-> "ACK", dec |-> "ack_ack", name |-> "UBX-ACK-ACK"])

(* cfg_ids, src/ubxtool.py lines 2223-2265 *)
cfg_ids ==
    (0 :> [str |-> "PRT", dec |-> "cfg_prt", name |-> "UBX-CFG-PRT"])
    @@ (1 :> [str |-> "MSG", dec |-> "cfg_msg", name |-> "UBX-CFG-MSG"])
    @@ (2 :> [str |-> "INF", name |-> "UBX-CFG-INF"])
    @@ (4 :> [str |-> "RST", dec |-> "cfg_rst", name |-> "UBX-CFG-RST"])
    @@ (6 :> [str |-> "DAT", name |-> "UBX-CFG-DAT"])
    @@ (8 :> [str |-> "RATE", name |-> "UBX-CFG-RATE"])
    @@ (9 :> [str |-> "CFG", dec |-> "cfg_cfg", name |-> "UBX-CFG-CFG"])
    @@ (17 :> [str |-> "RXM", name |-> "UBX-CFG-RXM"])
    @@ (19 :> [str |-> "ANT", dec |-> "cfg_ant", name |-> "UBX-CFG-ANT"])
    @@ (22 :> [str |-> "SBAS", dec |-> "cfg_sbas", name |-> "UBX-CFG-SBAS"])
    @@ (23 :> [str |-> "NMEA", name |-> "UBX-CFG-NMEA"])
    @@ (27 :> [str |-> "USB", dec |-> "cfg_usb", name |-> "UBX-CFG-USB"])
    @@ (30 :> [str |-> "ODO", name |-> "UBX-CFG-ODO"])
    @@ (35 :> [str |-> "NAVX5", dec |-> "cfg_navx5", name |-> "UBX-CFG-NAVX5"])
    @@ (36 :> [str |-> "NAV5", dec |-> "cfg_nav5", name |-> "UBX-CFG-NAV5"])
    @@ (49 :> [str |-> "TP5", dec |-> "cfg_tp5", name |-> "UBX-CFG-TP5"])
    @@ (52 :> [str |-> "RINV", name |-> "UBX-CFG-RINV"])
    @@ (57 :> [str |-> "ITFM", name |-> "UBX-CFG-ITFM"])
    @@ (59 :> [str |-> "PM2", name |-> "UBX-CFG-PM2"])
    @@ (61 :> [str |-> "TMODE2", dec |-> "cfg_tmode2", name |-> "UBX-CFG-TMODE2"])
    @@ (62 :> [str |-> "GNSS", dec |-> "cfg_gnss", name |-> "UBX-CFG-GNSS"])
    @@ (71 :> [str |-> "LOGFILTER", name |-> "UBX-CFG-LOGFILTER"])
    @@ (83 :> [str |-> "TXSLOT", name |-> "UBX-CFG-TXSLOT"])
    @@ (87 :> [str |-> "PWR", name |-> "UBX-CFG-PWR"])
    @@ (92 :> [str |-> "HNR", name |-> "UBX-CFG-HNR"])
    @@ (96 :> [str |-> "ESRC", name |-> "UBX-CFG-ESRC"])
    @@ (97 :> [str |-> "DOSC", name |-> "UBX-CFG-OSC"])
    @@ (98 :> [str |-> "SMGR", name |-> "UBX-CFG-SMGR"])
    @@ (105 :> [str |-> "GEOFENCE", name |-> "UBX-CFG-GEOFENCE"])
    @@ (112 :> [str |-> "DGNSS", name |-> "UBX-CFG-DGNSS"])
    @@ (113 :> [str |-> "TMODE3", name |-> "UBX-CFG-TMODE3"])
    @@ (132 :> [str |-> "FIXSEED", name |-> "UBX-CFG-FIXSEED"])
    @@ (133 :> [str |-> "DYNSEED", name |-> "UBX-CFG-DYNSEED"])
    @@ (134 :> [str |-> "PMS", dec |-> "cfg_pms", name |-> "UBX-CFG-PMS"])
    @@ (138 :> [str |-> "VALSET", dec |-> "cfg_valset", name |-> "UBX-CFG-VALSET"])
    @@ (139 :> [str |-> "VALGET", dec |-> "cfg_valget", name |-> "UBX-CFG-VALGET"])
    @@ (140 :> [str |-> "VALDEL", dec |-> "cfg_valdel", name |-> "UBX-CFG-VALDEL"])

(* inf_ids, src/ubxtool.py lines 2287-2297 *)
inf_ids ==
    (0 :> [str |-> "ERROR", dec |-> "inf_error", name |-> "UBX-INF-ERROR"])
    @@ (1 :> [str |-> "WARNING", dec |-> "inf_warning", name |-> "UBX-INF-WARNING"])
    @@ (2 :> [str |-> "NOTICE", dec |-> "inf_notice", name |-> "UBX-INF-NOTICE"])
    @@ (3 :> [str |-> "TEST", dec |-> "inf_test", name |-> "UBX-INF-TEST"])
    @@ (4 :> [str |-> "DEBUG", dec |-> "inf_debug", name |-> "UBX-INF-DEBUG"])

(* mon_ids, src/ubxtool.py lines 2390-2405 *)
mon_ids ==
    (2 :> [str |-> "IO", dec |-> "mon_io", name |-> "UBX-MON-IO"])
    @@ (4 :> [str |-> "VER", dec |-> "mon_ver", name |-> "UBX-MON-VER"])
    @@ (6 :> [str |-> "MSGPP", name |-> "UBX-MON-MSGPP"])
    @@ (7 :> [str |-> "RXBUF", name |-> "UBX-MON-RXBUF"])
    @@ (8 :> [str |-> "TXBUF", name |-> "UBX-MON-TXBUF"])
    @@ (9 :> [str |-> "HW", name |-> "UBX-MON-HW"])
    @@ (11 :> [str |-> "HW2", name |-> "UBX-MON-HW2"])
    @@ (33 :> [str |-> "RXR", name |-> "UBX-MON-RXR"])
    @@ (39 :> [str |-> "PATCH", name |-> "UBX-MON-PATCH"])
    @@ (40 :> [str |-> "GNSS", name |-> "UBX-MON-GNSS"])
    @@ (46 :> [str |-> "SMGR", name |-> "UBX-MON-SMGR"])
    @@ (54 :> [str |-> "COMMS", dec |-> "mon_comms", name |-> "UBX-MON-COMMS"])
    @@ (55 :> [str |-> "HW3", name |-> "UBX-MON-HW3"])
    @@ (56 :> [str |-> "RF", name |-> "UBX-MON-RF"])

(* nav_ids, src/ubxtool.py lines 3029-3076 *)
nav_ids ==
    (1 :> [str |-> "POSECEF", dec |-> "nav_posecef", name |-> "UBX-NAV-POSECEF"])
    @@ (2 :> [str |-> "POSLLH", dec |-> "nav_posllh", name |-> "UBX-NAV-POSLLH"])
    @@ (3 :> [str |-> "STATUS", dec |-> "nav_status", name |-> "UBX-NAV-STATUS"])
    @@ (4 :> [str |-> "DOP", dec |-> "nav_dop", name |-> "UBX-NAV-DOP"])
    @@ (5 :> [str |-> "ATT", name |-> "UBX-NAV-ATT"])
    @@ (6 :> [str |-> "SOL", dec |-> "nav_sol", name |-> "UBX-NAV-SOL"])
    @@ (7 :> [str |-> "PVT", dec |-> "nav_pvt", name |-> "UBX-NAV-PVT"])
    @@ (9 :> [str |-> "ODO", name |-> "UBX-NAV-ODO"])
    @@ (16 :> [str |-> "RESETODO", name |-> "UBX-NAV-RESETODO"])
    @@ (17 :> [str |-> "VELECEF", dec |-> "nav_velecef", name |-> "UBX-NAV-VELECEF"])
    @@ (18 :> [str |-> "VELNED", dec |-> "nav_velned", name |-> "UBX-NAV-VELNED"])
    @@ (19 :> [str |-> "HPPOSECEF", dec |-> "nav_hpposecef", name |-> "UBX-NAV-HPPOSECEF"])
    @@ (20 :> [str |-> "HPPOSLLH", dec |-> "nav_hpposllh", name |-> "UBX-NAV-HPPOSLLH"])
    @@ (32 :> [str |-> "TIMEGPS", dec |-> "nav_timegps", name |-> "UBX-NAV-TIMEGPS"])
    @@ (33 :> [str |-> "TIMEUTC", dec |-> "nav_timeutc", name |-> "UBX-NAV-TIMEUTC"])
    @@ (34 :> [str |-> "CLOCK", dec |-> "nav_clock", name |-> "UBX-NAV-CLOCK"])
    @@ (35 :> [str |-> "TIMEGLO", dec |-> "nav_timeglo", name |-> "UBX-NAV-TIMEGLO"])
    @@ (36 :> [str |-> "TIMEBDS", dec |-> "nav_timebds", name |-> "UBX-NAV-TIMEBDS"])
    @@ (37 :> [str |-> "TIMEGAL", dec |-> "nav_timegal", name |-> "UBX-NAV-TIMEGAL"])
    @@ (38 :> [str |-> "TIMELS", dec |-> "nav_timels", name |-> "UBX-NAV-TIMELS"])
    @@ (48 :> [str |-> "SVINFO", dec |-> "nav_svinfo", name |-> "UBX-NAV-SVINFO"])
    @@ (49 :> [str |-> "DGPS", dec |-> "nav_dgps", name |-> "UBX-NAV-DGPS"])
    @@ (50 :> [str |-> "SBAS", dec |-> "nav_sbas", name |-> "UBX-NAV-SBAS"])
    @@ (52 :> [str |-> "ORB", name |-> "UBX-NAV-ORB"])
    @@ (53 :> [str |-> "SAT", dec |-> "nav_sat", name |-> "UBX-NAV-SAT"])
    @@ (57 :> [str |-> "GEOFENCE", dec |-> "nav_geofence", name |-> "UBX-NAV-GEOFENCE"])
    @@ (59 :> [str |-> "SVIN", dec |-> "nav_svin", name |-> "UBX-NAV-SVIN"])
    @@ (60 :> [str |-> "RELPOSNED", name |-> "UBX-NAV-RELPOSNED"])
    @@ (67 :> [str |-> "SIG", dec |-> "nav_sig", name |-> "UBX-NAV-SIG"])
    @@ (96 :> [str |-> "AOPSTATUS", name |-> "UBX-NAV-AOPSTATUS"])
    @@ (97 :> [str |-> "EOE", dec |-> "nav_eoe", name |-> "UBX-NAV-EOE"])

(* rtcm_ids, src/ubxtool.py lines 3079-3090 *)
rtcm_ids ==
    (5 :> [str |-> "1005"])
    @@ (74 :> [str |-> "1074"])
    @@ (77 :> [str |-> "1077"])
    @@ (84 :> [str |-> "1084"])
    @@ (87 :> [str |-> "1087"])
    @@ (97 :> [str |-> "1097"])
    @@ (124 :> [str |-> "1124"])
    @@ (127 :> [str |-> "1127"])
    @@ (230 :> [str |-> "1230"])
    @@ (253 :> [str |-> "4072-1"])
    @@ (254 :> [str |-> "4072-0"])

(* nmea_ids, src/ubxtool.py lines 3093-3112 *)
nmea_ids ==
    (0 :> [str |-> "GGA"])
    @@ (1 :> [str |-> "GLL"])
    @@ (2 :> [str |-> "GSA"])
    @@ (3 :> [str |-> "GSV"])
    @@ (4 :> [str |-> "RMC"])
    @@ (5 :> [str |-> "VTG"])
    @@ (6 :> [str |-> "GRS"])
    @@ (7 :> [str |-> "GST"])
    @@ (8 :> [str |-> "ZDA"])
    @@ (9 :> [str |-> "GBS"])
    @@ (10 :> [str |-> "DTM"])
    @@ (13 :> [str |-> "GNS"])
    @@ (15 :> [str |-> "VLW"])
    @@ (64 :> [str |-> "GPQ"])
    @@ (65 :> [str |-> "TXT"])
    @@ (66 :> [str |-> "GNQ"])
    @@ (67 :> [str |-> "GLQ"])
    @@ (68 :> [str |-> "GBQ"])
    @@ (69 :> [str |-> "GAQ"])

(* rxm_ids, src/ubxtool.py lines 3255-3269 *)
rxm_ids ==
    (16 :> [str |-> "RAW", dec |-> "rxm_raw", name |-> "UBX-RXM-RAW"])
    @@ (17 :> [str |-> "SFRB", dec |-> "rxm_sfrb", name |-> "UBX-RXM-SFRB"])
    @@ (19 :> [str |-> "SFRBX", dec |-> "rxm_sfrbx", name |-> "UBX-RXM-SFRBX"])
    @@ (20 :> [str |-> "MEASX", dec |-> "rxm_measx", name |-> "UBX-RXM-MEASX"])
    @@ (21 :> [str |-> "RAWX", dec |-> "rxm_rawx", name |-> "UBX-RXM-RAWX"])
    @@ (32 :> [str |-> "SVSI", dec |-> "rxm_svsi", name |-> "UBX-RXM-SVSI"])
    @@ (50 :> [str |-> "RTCM", name |-> "UBX-RXM-RTCM"])
    @@ (65 :> [str |-> "PMREQ", name |-> "UBX-RXM-PMREQ"])
    @@ (89 :> [str |-> "RLM", name |-> "UBX-RXM-RLM"])
    @@ (97 :> [str |-> "IMES", name |-> "UBX-RXM-IMES"])

(* sec_ids, src/ubxtool.py lines 3286-3289 *)
sec_ids ==
    (1 :> [str |-> "SIGN", name |-> "UBX-SEC-SIGN"])
    @@ (3 :> [str |-> "UNIQID", dec |-> "sec_uniqid", name |-> "UBX-SEC-UNIQID"])

(* tim_ids, src/ubxtool.py lines 3353-3363 *)
tim_ids ==
    (1 :> [str |-> "TP", dec |-> "tim_tp", name |-> "UBX-TIM-TP"])
    @@ (3 :> [str |-> "TM2", dec |-> "tim_tm2", name |-> "UBX-TIM-TM2"])
    @@ (4 :> [str |-> "SVIN", dec |-> "tim_svin", name |-> "UBX-TIM-SVIN"])
    @@ (6 :> [str |-> "VRFY", name |-> "UBX-TIM-VRFY"])
    @@ (17 :> [str |-> "DOSC", name |-> "UBX-TIM-DOSC"])
    @@ (18 :> [str |-> "TOS", name |-> "UBX-TIM-TOS"])
    @@ (19 :> [str |-> "SMEAS", name |-> "UBX-TIM-SMEAS"])
    @@ (21 :> [str |-> "VCOCAL", name |-> "UBX-TIM-VCOCAL"])
    @@ (22 :> [str |-> "FCHG", name |-> "UBX-TIM-FCHG"])
    @@ (23 :> [str |-> "HOC", name |-> "UBX-TIM-HOC"])

(* classes, src/ubxtool.py lines 3367-3384 *)
classes ==
    (1 :> [str |-> "NAV", ids |-> nav_ids])
    @@ (2 :> [str |-> "RXM", ids |-> rxm_ids])
    @@ (4 :> [str |-> "INF", ids |-> inf_ids])
    @@ (5 :> [str |-> "ACK", ids |-> ack_ids])
    @@ (6 :> [str |-> "CFG", ids |-> cfg_ids])
    @@ (9 :> [str |-> "UPD"])
    @@ (10 :> [str |-> "MON", ids |-> mon_ids])
    @@ (11 :> [str |-> "ATD"])
    @@ (13 :> [str |-> "TIM", ids |-> tim_ids])
    @@ (16 :> [str |-> "ESF"])
    @@ (19 :> [str |-> "MGA"])
    @@ (33 :> [str |-> "LOG"])
    @@ (39 :> [str |-> "SEC", ids |-> sec_ids])
    @@ (40 :> [str |-> "HNR"])
    @@ (240 :> [str |-> "NMEA", ids |-> nmea_ids])
    @@ (245 :> [str |-> "RTCM", ids |-> rtcm_ids])


(***************************************************************************)
(* cfgs, src/ubxtool.py lines 179-1516: the configuration items as (name,  *)
(* key, value type, scale, unit); the scale is kept as it is written, and  *)
(* the description, which no code reads, is left out.                      *)
(***************************************************************************)
cfgs ==
    <<
    [name |-> "CFG-GEOFENCE-CONFLVL", key |-> 539230225, type |-> "E1", scale |-> "1", unit |-> ""],
    [name |-> "CFG-GEOFENCE-USE_PIO", key |-> 270794770, type |-> "L", scale |-> "1", unit |-> ""],
    [name |-> "CFG-GEOFENCE-PINPOL", key |-> 539230227, type |-> "E1", scale |-> "1", unit |-> ""],
    [name |-> "CFG-GEOFENCE-PIN", key |-> 539230228, type |-> "U1", scale |-> "1", unit |-> ""],
    [name |-> "CFG-GEOFENCE-USE_FENCE1", key |-> 270794784, type |-> "L", scale |-> "1", unit |-> ""],
    [name |-> "CFG-GEOFENCE-FENCE1_LAT", key |-> 1076101153, type |-> "I4", scale |-> "1e-07", unit |-> "deg"],
    [name |-> "CFG-GEOFENCE-FENCE1_LON", key |-> 1076101154, type |-> "I4", scale |-> "1e-07", unit |-> "deg"],
    [name |-> "CFG-GEOFENCE-FENCE1_RAD", key |-> 1076101155, type |-> "U4", scale |-> "0.01", unit |-> "m"],
    [name |-> "CFG-GEOFENCE-USE_FENCE2", key |-> 270794800, type |-> "L", scale |-> "1", unit |-> ""],
    [name |-> "CFG-GEOFENCE-FENCE2_LAT", key |-> 1076101169, type |-> "I4", scale |-> "1e-07", unit |-> "deg"],
    [name |-> "CFG-GEOFENCE-FENCE2_LON", key |-> 1076101170, type |-> "I4", scale |-> "1e-07", unit |-> "deg"],
    [name |-> "CFG-GEOFENCE-FENCE2_RAD", key |-> 1076101171, type |-> "U4", scale |-> "0.01", unit |-> "m"],
    [name |-> "CFG-GEOFENCE-USE_FENCE3", key |-> 270794816, type |-> "L", scale |-> "1", unit |-> ""],
    [name |-> "CFG-GEOFENCE-FENCE3_LAT", key |-> 1076101185, type |-> "I4", scale |-> "1e-07", unit |-> "deg"],
    [name |-> "CFG-GEOFENCE-FENCE3_LON", key |-> 1076101186, type |-> "I4", scale |-> "1e-07", unit |-> "deg"],
    [name |-> "CFG-GEOFENCE-FENCE3_RAD", key |-> 1076101187, type |-> "U4", scale |-> "0.01", unit |-> "m"],
    [name |-> "CFG-GEOFENCE-USE_FENCE4", key |-> 270794832, type |-> "L", scale |-> "1", unit |-> ""],
    [name |-> "CFG-GEOFENCE-FENCE4_LAT", key |-> 1076101201, type |-> "I4", scale |-> "1e-07", unit |-> "deg"],
    [name |-> "CFG-GEOFENCE-FENCE4_LON", key |-> 1076101202, type |-> "I4", scale |-> "1e-07", unit |-> "deg"],
    [name |-> "CFG-GEOFENCE-FENCE4_RAD", key |-> 1076101203, type |-> "U4", scale |-> "0.01", unit |-> "m"],
    [name |-> "CFG-HW-ANT_CFG_VOLTCTRL", key |-> 279117870, type |-> "L", scale |-> "1", unit |-> ""],
    [name |-> "CFG-HW-ANT_CFG_SHORTDET", key |-> 279117871, type |-> "L", scale |-> "1", unit |-> ""],
    [name |-> "CFG-HW-ANT_CFG_SHORTDET_POL", key |-> 279117872, type |-> "L", scale |-> "1", unit |-> ""],
    [name |-> "CFG-HW-ANT_CFG_OPENDET", key |-> 279117873, type |-> "L", scale |-> "1", unit |-> ""],
    [name |-> "CFG-HW-ANT_CFG_OPENDET_POL", key |-> 279117874, type |-> "L", scale |-> "1", unit |-> ""],
    [name |-> "CFG-HW-ANT_CFG_PWRDOWN", key |-> 279117875, type |-> "L", scale |-> "1", unit |-> ""],
    [name |-> "CFG-HW-ANT_CFG_PWRDOWN_POL", key |-> 279117876, type |-> "L", scale |-> "1", unit |-> ""],
    [name |-> "CFG-HW-ANT_CFG_RECOVER", key |-> 279117877, type |-> "L", scale |-> "1", unit |-> ""],
    [name |-> "CFG-HW-ANT_SUP_SWITCH_PIN", key |-> 547553334, type |-> "U1", scale |-> "1", unit |-> ""],
    [name |-> "CFG-HW-ANT_SUP_SHORT_PIN", key |-> 547553335, type |-> "U1", scale |-> "1", unit |-> ""],
    [name |-> "CFG-HW-ANT_SUP_OPEN_PIN", key |-> 547553336, type |-> "U1", scale |-> "1", unit |-> ""],
    [name |-> "CFG-I2C-ADDRESS", key |-> 542179329, type |-> "U1", scale |-> "1", unit |-> ""],
    [name |-> "CFG-I2C-EXTENDEDTIMEOUT", key |-> 273743874, type |-> "L", scale |-> "1", unit |-> ""],
    [name |-> "CFG-I2C-ENABLED", key |-> 273743875, type |-> "L", scale |-> "1", unit |-> ""],
    [name |-> "CFG-I2CINPROT-UBX", key |-> 275841025, type |-> "L", scale |-> "1", unit |-> ""],
    [name |-> "CFG-I2CINPROT-NMEA", key |-> 275841026, type |-> "L", scale |-> "1", unit |-> ""],
    [name |-> "CFG-I2CINPROT-RTCM2X", key |-> 275841027, type |-> "L", scale |-> "1", unit |-> ""],
    [name |-> "CFG-I2CINPROT-RTCM3X", key |-> 275841028, type |-> "L", scale |-> "1", unit |-> ""],
    [name |-> "CFG-I2COUTPROT-UBX", key |-> 275906561, type |-> "L", scale |-> "1", unit |-> ""],
    [name |-> "CFG-I2COUTPROT-NMEA", key |-> 275906562, type |-> "L", scale |-> "1", unit |-> ""],
    [name |-> "CFG-I2COUTPROT-RTCM3X", key |-> 275906564, type |-> "L", scale |-> "1", unit |-> ""],
    [name |-> "CFG-INFMSG-UBX_I2C", key |-> 546439169, type |-> "X1", scale |-> "1", unit |-> ""],
    [name |-> "CFG-INFMSG-UBX_UART1", key |-> 546439170, type |-> "X1", scale |-> "1", unit |-> ""],
    [name |-> "CFG-INFMSG-UBX_UART2", key |-> 546439171, type |-> "X1", scale |-> "1", unit |-> ""],
    [name |-> "CFG-INFMSG-UBX_USB", key |-> 546439172, type |-> "X1", scale |-> "1", unit |-> ""],
    [name |-> "CFG-INFMSG-UBX_SPI", key |-> 546439173, type |-> "X1", scale |-> "1", unit |-> ""],
    [name |-> "CFG-INFMSG-NMEA_I2C", key |-> 546439174, type |-> "X1", scale |-> "1", unit |-> ""],
    [name |-> "CFG-INFMSG-NMEA_UART1", key |-> 546439175, type |-> "X1", scale |-> "1", unit |-> ""],
    [name |-> "CFG-INFMSG-NMEA_UART2", key |-> 546439176, type |-> "X1", scale |-> "1", unit |-> ""],
    [name |-> "CFG-INFMSG-NMEA_USB", key |-> 546439177, type |-> "X1", scale |-> "1", unit |-> ""],
    [name |-> "CFG-INFMSG-NMEA_SPI", key |-> 546439178, type |-> "X1", scale |-> "1", unit |-> ""],
    [name |-> "CFG-ITFM-BBTHRESHOLD", key |-> 541130753, type |-> "U1", scale |-> "1", unit |-> ""],
    [name |-> "CFG-ITFM-CWTHRESHOLD", key |-> 541130754, type |-> "U1", scale |-> "1", unit |-> ""],
    [name |-> "CFG-ITFM-ENABLE", key |-> 272695309, type |-> "L", scale |-> "1", unit |-> ""],
    [name |-> "CFG-ITFM-ANTSETTING", key |-> 541130768, type |-> "E1", scale |-> "1", unit |-> ""],
    [name |-> "CFG-ITFM-ENABLE_AUX", key |-> 272695315, type |-> "L", scale |-> "1", unit |-> ""],
    [name |-> "CFG-LOGFILTER-RECORD_ENA", key |-> 282984450, type |-> "L", scale |-> "1", unit |-> ""],
    [name |-> "CFG-LOGFILTER-ONCE_PER_WAKE_UP_ENA", key |-> 282984451, type |-> "L", scale |-> "1", unit |-> ""],
    [name |-> "CFG-LOGFILTER-APPLY_ALL_FILTERS", key |-> 282984452, type |-> "L", scale |-> "1", unit |-> ""],
    [name |-> "CFG-LOGFILTER-MIN_INTERVAL", key |-> 819855365, type |-> "U2", scale |-> "1", unit |-> "s"],
    [name |-> "CFG-LOGFILTER-TIME_THRS", key |-> 819855366, type |-> "U2", scale |-> "1", unit |-> "s"],
    [name |-> "CFG-LOGFILTER-SPEED_THRS", key |-> 819855367, type |-> "U2", scale |-> "1", unit |-> "m/s"],
    [name |-> "CFG-LOGFILTER-POSITION_THRS", key |-> 1088290824, type |-> "U4", scale |-> "1", unit |-> "m"],
    [name |-> "CFG-MOT-GNSSSPEED_THRS", key |-> 539295800, type |-> "U1", scale |-> "0.01", unit |-> "m/s"],
    [name |-> "CFG-MOT-GNSSDIST_THRS", key |-> 807731259, type |-> "U2", scale |-> "1", unit |-> ""],
    [name |-> "CFG-MSGOUT-NMEA_ID_DTM_I2C", key |-> 546373798, type |-> "U1", scale |-> "1", unit |-> ""],
    [name |-> "CFG-MSGOUT-NMEA_ID_DTM_SPI", key |-> 546373802, type |-> "U1", scale |-> "1", unit |-> ""],
    [name |-> "CFG-MSGOUT-NMEA_ID_DTM_UART1", key |-> 546373799, type |-> "U1", scale |-> "1", unit |-> ""],
    [name |-> "CFG-MSGOUT-NMEA_ID_DTM_UART2", key |-> 546373800, type |-> "U1", scale |-> "1", unit |-> ""],
    [name |-> "CFG-MSGOUT-NMEA_ID_DTM_USB", key |-> 546373801, type |-> "U1", scale |-> "1", unit |-> ""],
    [name |-> "CFG-MSGOUT-NMEA_ID_GBS_I2C", key |-> 546373853, type |-> "U1", scale |-> "1", unit |-> ""],
    [name |-> "CFG-MSGOUT-NMEA_ID_GBS_SPI", key |-> 546373857, type |-> "U1", scale |-> "1", unit |-> ""],
    [name |-> "CFG-MSGOUT-NMEA_ID_GBS_UART1", key |-> 546373854, type |-> "U1", scale |-> "1", unit |-> ""],
    [name |-> "CFG-MSGOUT-NMEA_ID_GBS_UART2", key |-> 546373855, type |-> "U1", scale |-> "1", unit |-> ""],
    [name |-> "CFG-MSGOUT-NMEA_ID_GBS_USB", key |-> 546373856, type |-> "U1", scale |-> "1", unit |-> ""],
    [name |-> "CFG-MSGOUT-NMEA_ID_GGA_I2C", key |-> 546373818, type |-> "U1", scale |-> "1", unit |-> ""],
    [name |-> "CFG-MSGOUT-NMEA_ID_GGA_SPI", key |-> 546373822, type |-> "U1", scale |-> "1", unit |-> ""],
    [name |-> "CFG-MSGOUT-NMEA_ID_GGA_UART1", key |-> 546373819, type |-> "U1", scale |-> "1", unit |-> ""],
    [name |-> "CFG-MSGOUT-NMEA_ID_GGA_UART2", key |-> 546373820, type |-> "U1", scale |-> "1", unit |-> ""],
    [name |-> "CFG-MSGOUT-NMEA_ID_GGA_USB", key |-> 546373821, type |-> "U1", scale |-> "1", unit |-> ""],
    [name |-> "CFG-MSGOUT-NMEA_ID_GLL_I2C", key |-> 546373833, type |-> "U1", scale |-> "1", unit |-> ""],
    [name |-> "CFG-MSGOUT-NMEA_ID_GLL_SPI", key |-> 546373837, type |-> "U1", scale |-> "1", unit |-> ""],
    [name |-> "CFG-MSGOUT-NMEA_ID_GLL_UART1", key |-> 546373834, type |-> "U1", scale |-> "1", unit |-> ""],
    [name |-> "CFG-MSGOUT-NMEA_ID_GLL_UART2", key |-> 546373835, type |-> "U1", scale |-> "1", unit |-> ""],
    [name |-> "CFG-MSGOUT-NMEA_ID_GLL_USB", key |-> 546373836, type |-> "U1", scale |-> "1", unit |-> ""],
    [name |-> "CFG-MSGOUT-NMEA_ID_GNS_I2C", key |-> 546373813, type |-> "U1", scale |-> "1", unit |-> ""],
    [name |-> "CFG-MSGOUT-NMEA_ID_GNS_SPI", key |-> 546373817, type |-> "U1", scale |-> "1", unit |-> ""],
    [name |-> "CFG-MSGOUT-NMEA_ID_GNS_UART1", key |-> 546373814, type |-> "U1", scale |-> "1", unit |-> ""],
    [name |-> "CFG-MSGOUT-NMEA_ID_GNS_UART2", key |-> 546373815, type |-> "U1", scale |-> "1", unit |-> ""],
    [name |-> "CFG-MSGOUT-NMEA_ID_GNS_USB", key |-> 546373816, type |-> "U1", scale |-> "1", unit |-> ""],
    [name |-> "CFG-MSGOUT-NMEA_ID_GRS_I2C", key |-> 546373838, type |-> "U1", scale |-> "1", unit |-> ""],
    [name |-> "CFG-MSGOUT-NMEA_ID_GRS_SPI", key |-> 546373842, type |-> "U1", scale |-> "1", unit |-> ""],
    [name |-> "CFG-MSGOUT-NMEA_ID_GRS_UART1", key |-> 546373839, type |-> "U1", scale |-> "1", unit |-> ""],
    [name |-> "CFG-MSGOUT-NMEA_ID_GRS_UART2", key |-> 546373840, type |-> "U1", scale |-> "1", unit |-> ""],
    [name |-> "CFG-MSGOUT-NMEA_ID_GRS_USB", key |-> 546373841, type |-> "U1", scale |-> "1", unit |-> ""],
    [name |-> "CFG-MSGOUT-NMEA_ID_GSA_I2C", key |-> 546373823, type |-> "U1", scale |-> "1", unit |-> ""],
    [name |-> "CFG-MSGOUT-NMEA_ID_GSA_SPI", key |-> 546373827, type |-> "U1", scale |-> "1", unit |-> ""],
    [name |-> "CFG-MSGOUT-NMEA_ID_GSA_UART1", key |-> 546373824, type |-> "U1", scale |-> "1", unit |-> ""],
    [name |-> "CFG-MSGOUT-NMEA_ID_GSA_UART2", key |-> 546373825, type |-> "U1", scale |-> "1", unit |-> ""],
    [name |-> "CFG-MSGOUT-NMEA_ID_GSA_USB", key |-> 546373826, type |-> "U1", scale |-> "1", unit |-> ""],
    [name |-> "CFG-MSGOUT-NMEA_ID_GST_I2C", key |-> 546373843, type |-> "U1", scale |-> "1", unit |-> ""],
    [name |-> "CFG-MSGOUT-NMEA_ID_GST_SPI", key |-> 546373847, type |-> "U1", scale |-> "1", unit |-> ""],
    [name |-> "CFG-MSGOUT-NMEA_ID_GST_UART1", key |-> 546373844, type |-> "U1", scale |-> "1", unit |-> ""],
    [name |-> "CFG-MSGOUT-NMEA_ID_GST_UART2", key |-> 546373845, type |-> "U1", scale |-> "1", unit |-> ""],
    [name |-> "CFG-MSGOUT-NMEA_ID_GST_USB", key |-> 546373846, type |-> "U1", scale |-> "1", unit |-> ""],
    [name |-> "CFG-MSGOUT-NMEA_ID_GSV_I2C", key |-> 546373828, type |-> "U1", scale |-> "1", unit |-> ""],
    [name |-> "CFG-MSGOUT-NMEA_ID_GSV_SPI", key |-> 546373832, type |-> "U1", scale |-> "1", unit |-> ""],
    [name |-> "CFG-MSGOUT-NMEA_ID_GSV_UART1", key |-> 546373829, type |-> "U1", scale |-> "1", unit |-> ""],
    [name |-> "CFG-MSGOUT-NMEA_ID_GSV_UART2", key |-> 546373830, type |-> "U1", scale |-> "1", unit |-> ""],
    [name |-> "CFG-MSGOUT-NMEA_ID_GSV_USB", key |-> 546373831, type |-> "U1", scale |-> "1", unit |-> ""],
    [name |-> "CFG-MSGOUT-NMEA_ID_RMC_I2C", key |-> 546373803, type |-> "U1", scale |-> "1", unit |-> ""],
    [name |-> "CFG-MSGOUT-NMEA_ID_RMC_SPI", key |-> 546373807, type |-> "U1", scale |-> "1", unit |-> ""],
    [name |-> "CFG-MSGOUT-NMEA_ID_RMC_UART1", key |-> 546373804, type |-> "U1", scale |-> "1", unit |-> ""],
    [name |-> "CFG-MSGOUT-NMEA_ID_RMC_UART2", key |-> 546373805, type |-> "U1", scale |-> "1", unit |-> ""],
    [name |-> "CFG-MSGOUT-NMEA_ID_RMC_USB", key |-> 546373806, type |-> "U1", scale |-> "1", unit |-> ""],
    [name |-> "CFG-MSGOUT-NMEA_ID_VLW_I2C", key |-> 546373863, type |-> "U1", scale |-> "1", unit |-> ""],
    [name |-> "CFG-MSGOUT-NMEA_ID_VLW_SPI", key |-> 546373867, type |-> "U1", scale |-> "1", unit |-> ""],
    [name |-> "CFG-MSGOUT-NMEA_ID_VLW_UART1", key |-> 546373864, type |-> "U1", scale |-> "1", unit |-> ""],
    [name |-> "CFG-MSGOUT-NMEA_ID_VLW_UART2", key |-> 546373865, type |-> "U1", scale |-> "1", unit |-> ""],
    [name |-> "CFG-MSGOUT-NMEA_ID_VLW_USB", key |-> 546373866, type |-> "U1", scale |-> "1", unit |-> ""],
    [name |-> "CFG-MSGOUT-NMEA_ID_VTG_I2C", key |-> 546373808, type |-> "U1", scale |-> "1", unit |-> ""],
    [name |-> "CFG-MSGOUT-NMEA_ID_VTG_SPI", key |-> 546373812, type |-> "U1", scale |-> "1", unit |-> ""],
    [name |-> "CFG-MSGOUT-NMEA_ID_VTG_UART1", key |-> 546373809, type |-> "U1", scale |-> "1", unit |-> ""],
    [name |-> "CFG-MSGOUT-NMEA_ID_VTG_UART2", key |-> 546373810, type |-> "U1", scale |-> "1", unit |-> ""],
    [name |-> "CFG-MSGOUT-NMEA_ID_VTG_USB", key |-> 546373811, type |-> "U1", scale |-> "1", unit |-> ""],
    [name |-> "CFG-MSGOUT-NMEA_ID_ZDA_I2C", key |-> 546373848, type |-> "U1", scale |-> "1", unit |-> ""],
    [name |-> "CFG-MSGOUT-NMEA_ID_ZDA_SPI", key |-> 546373852, type |-> "U1", scale |-> "1", unit |-> ""],
    [name |-> "CFG-MSGOUT-NMEA_ID_ZDA_UART1", key |-> 546373849, type |-> "U1", scale |-> "1", unit |-> ""],
    [name |-> "CFG-MSGOUT-NMEA_ID_ZDA_UART2", key |-> 546373850, type |-> "U1", scale |-> "1", unit |-> ""],
    [name |-> "CFG-MSGOUT-NMEA_ID_ZDA_USB", key |-> 546373851, type |-> "U1", scale |-> "1", unit |-> ""],
    [name |-> "CFG-MSGOUT-PUBX_ID_POLYP_I2C", key |-> 546373868, type |-> "U1", scale |-> "1", unit |-> ""],
    [name |-> "CFG-MSGOUT-PUBX_ID_POLYP_SPI", key |-> 546373872, type |-> "U1", scale |-> "1", unit |-> ""],
    [name |-> "CFG-MSGOUT-PUBX_ID_POLYP_UART1", key |-> 546373869, type |-> "U1", scale |-> "1", unit |-> ""],
    [name |-> "CFG-MSGOUT-PUBX_ID_POLYP_UART2", key |-> 546373870, type |-> "U1", scale |-> "1", unit |-> ""],
    [name |-> "CFG-MSGOUT-PUBX_ID_POLYP_USB", key |-> 546373871, type |-> "U1", scale |-> "1", unit |-> ""],
    [name |-> "CFG-MSGOUT-PUBX_ID_POLYS_I2C", key |-> 546373873, type |-> "U1", scale |-> "1", unit |-> ""],
    [name |-> "CFG-MSGOUT-PUBX_ID_POLYS_SPI", key |-> 546373877, type |-> "U1", scale |-> "1", unit |-> ""],
    [name |-> "CFG-MSGOUT-PUBX_ID_POLYS_UART1", key |-> 546373874, type |-> "U1", scale |-> "1", unit |-> ""],
    [name |-> "CFG-MSGOUT-PUBX_ID_POLYS_UART2", key |-> 546373875, type |-> "U1", scale |-> "1", unit |-> ""],
    [name |-> "CFG-MSGOUT-PUBX_ID_POLYS_USB", key |-> 546373876, type |-> "U1", scale |-> "1", unit |-> ""],
    [name |-> "CFG-MSGOUT-PUBX_ID_POLYT_I2C", key |-> 546373878, type |-> "U1", scale |-> "1", unit |-> ""],
    [name |-> "CFG-MSGOUT-PUBX_ID_POLYT_SPI", key |-> 546373882, type |-> "U1", scale |-> "1", unit |-> ""],
    [name |-> "CFG-MSGOUT-PUBX_ID_POLYT_UART1", key |-> 546373879, type |-> "U1", scale |-> "1", unit |-> ""],
    [name |-> "CFG-MSGOUT-PUBX_ID_POLYT_UART2", key |-> 546373880, type |-> "U1", scale |-> "1", unit |-> ""],
    [name |-> "CFG-MSGOUT-PUBX_ID_POLYT_USB", key |-> 546373881, type |-> "U1", scale |-> "1", unit |-> ""],
    [name |-> "CFG-MSGOUT-RTCM_3X_TYPE1005_I2C", key |-> 546374333, type |-> "U1", scale |-> "1", unit |-> ""],
    [name |-> "CFG-MSGOUT-RTCM_3X_TYPE1005_SPI", key |-> 546374337, type |-> "U1", scale |-> "1", unit |-> ""],
    [name |-> "CFG-MSGOUT-RTCM_3X_TYPE1005_UART1", key |-> 546374334, type |-> "U1", scale |-> "1", unit |-> ""],
    [name |-> "CFG-MSGOUT-RTCM_3X_TYPE1005_UART2", key |-> 546374335, type |-> "U1", scale |-> "1", unit |-> ""],
    [name |-> "CFG-MSGOUT-RTCM_3X_TYPE1005_USB", key |-> 546374336, type |-> "U1", scale |-> "1", unit |-> ""],
    [name |-> "CFG-MSGOUT-RTCM_3X_TYPE1074_I2C", key |-> 546374494, type |-> "U1", scale |-> "1", unit |-> ""],
    [name |-> "CFG-MSGOUT-RTCM_3X_TYPE1074_SPI", key |-> 546374498, type |-> "U1", scale |-> "1", unit |-> ""],
    [name |-> "CFG-MSGOUT-RTCM_3X_TYPE1074_UART1", key |-> 546374495, type |-> "U1", scale |-> "1", unit |-> ""],
    [name |-> "CFG-MSGOUT-RTCM_3X_TYPE1074_UART2", key |-> 546374496, type |-> "U1", scale |-> "1", unit |-> ""],
    [name |-> "CFG-MSGOUT-RTCM_3X_TYPE1074_USB", key |-> 546374497, type |-> "U1", scale |-> "1", unit |-> ""],
    [name |-> "CFG-MSGOUT-RTCM_3X_TYPE1077_I2C", key |-> 546374348, type |-> "U1", scale |-> "1", unit |-> ""],
    [name |-> "CFG-MSGOUT-RTCM_3X_TYPE1077_SPI", key |-> 546374352, type |-> "U1", scale |-> "1", unit |-> ""],
    [name |-> "CFG-MSGOUT-RTCM_3X_TYPE1077_UART1", key |-> 546374349, type |-> "U1", scale |-> "1", unit |-> ""],
    [name |-> "CFG-MSGOUT-RTCM_3X_TYPE1077_UART2", key |-> 546374350, type |-> "U1", scale |-> "1", unit |-> ""],
    [name |-> "CFG-MSGOUT-RTCM_3X_TYPE1077_USB", key |-> 546374351, type |-> "U1", scale |-> "1", unit |-> ""],
    [name |-> "CFG-MSGOUT-RTCM_3X_TYPE1087_I2C", key |-> 546374353, type |-> "U1", scale |-> "1", unit |-> ""],
    [name |-> "CFG-MSGOUT-RTCM_3X_TYPE1084_SPI", key |-> 546374503, type |-> "U1", scale |-> "1", unit |-> ""],
    [name |-> "CFG-MSGOUT-RTCM_3X_TYPE1084_UART1", key |-> 546374500, type |-> "U1", scale |-> "1", unit |-> ""],
    [name |-> "CFG-MSGOUT-RTCM_3X_TYPE1084_UART2", key |-> 546374501, type |-> "U1", scale |-> "1", unit |-> ""],
    [name |-> "CFG-MSGOUT-RTCM_3X_TYPE1084_USB", key |-> 546374502, type |-> "U1", scale |-> "1", unit |-> ""],
    [name |-> "CFG-MSGOUT-RTCM_3X_TYPE1087_SPI", key |-> 546374357, type |-> "U1", scale |-> "1", unit |-> ""],
    [name |-> "CFG-MSGOUT-RTCM_3X_TYPE1087_UART1", key |-> 546374354, type |-> "U1", scale |-> "1", unit |-> ""],
    [name |-> "CFG-MSGOUT-RTCM_3X_TYPE1087_UART2", key |-> 546374355, type |-> "U1", scale |-> "1", unit |-> ""],
    [name |-> "CFG-MSGOUT-RTCM_3X_TYPE1087_USB", key |-> 546374356, type |-> "U1", scale |-> "1", unit |-> ""],
    [name |-> "CFG-MSGOUT-RTCM_3X_TYPE1094_I2C", key |-> 546374504, type |-> "U1", scale |-> "1", unit |-> ""],
    [name |-> "CFG-MSGOUT-RTCM_3X_TYPE1094_SPI", key |-> 546374508, type |-> "U1", scale |-> "1", unit |-> ""],
    [name |-> "CFG-MSGOUT-RTCM_3X_TYPE1094_UART1", key |-> 546374505, type |-> "U1", scale |-> "1", unit |-> ""],
    [name |-> "CFG-MSGOUT-RTCM_3X_TYPE1094_UART2", key |-> 546374506, type |-> "U1", scale |-> "1", unit |-> ""],
    [name |-> "CFG-MSGOUT-RTCM_3X_TYPE1094_USB", key |-> 546374507, type |-> "U1", scale |-> "1", unit |-> ""],
    [name |-> "CFG-MSGOUT-RTCM_3X_TYPE1097_I2C", key |-> 546374424, type |-> "U1", scale |-> "1", unit |-> ""],
    [name |-> "CFG-MSGOUT-RTCM_3X_TYPE1097_SPI", key |-> 546374428, type |-> "U1", scale |-> "1", unit |-> ""],
    [name |-> "CFG-MSGOUT-RTCM_3X_TYPE1097_UART1", key |-> 546374425, type |-> "U1", scale |-> "1", unit |-> ""],
    [name |-> "CFG-MSGOUT-RTCM_3X_TYPE1097_UART2", key |-> 546374426, type |-> "U1", scale |-> "1", unit |-> ""],
    [name |-> "CFG-MSGOUT-RTCM_3X_TYPE1097_USB", key |-> 546374427, type |-> "U1", scale |-> "1", unit |-> ""],
    [name |-> "CFG-MSGOUT-RTCM_3X_TYPE1124_I2C", key |-> 546374509, type |-> "U1", scale |-> "1", unit |-> ""],
    [name |-> "CFG-MSGOUT-RTCM_3X_TYPE1124_SPI", key |-> 546374513, type |-> "U1", scale |-> "1", unit |-> ""],
    [name |-> "CFG-MSGOUT-RTCM_3X_TYPE1124_UART1", key |-> 546374510, type |-> "U1", scale |-> "1", unit |-> ""],
    [name |-> "CFG-MSGOUT-RTCM_3X_TYPE1124_UART2", key |-> 546374511, type |-> "U1", scale |-> "1", unit |-> ""],
    [name |-> "CFG-MSGOUT-RTCM_3X_TYPE1124_USB", key |-> 546374512, type |-> "U1", scale |-> "1", unit |-> ""],
    [name |-> "CFG-MSGOUT-RTCM_3X_TYPE1127_I2C", key |-> 546374358, type |-> "U1", scale |-> "1", unit |-> ""],
    [name |-> "CFG-MSGOUT-RTCM_3X_TYPE1127_SPI", key |-> 546374362, type |-> "U1", scale |-> "1", unit |-> ""],
    [name |-> "CFG-MSGOUT-RTCM_3X_TYPE1127_UART1", key |-> 546374359, type |-> "U1", scale |-> "1", unit |-> ""],
    [name |-> "CFG-MSGOUT-RTCM_3X_TYPE1127_UART2", key |-> 546374360, type |-> "U1", scale |-> "1", unit |-> ""],
    [name |-> "CFG-MSGOUT-RTCM_3X_TYPE1127_USB", key |-> 546374361, type |-> "U1", scale |-> "1", unit |-> ""],
    [name |-> "CFG-MSGOUT-RTCM_3X_TYPE1230_I2C", key |-> 546374403, type |-> "U1", scale |-> "1", unit |-> ""],
    [name |-> "CFG-MSGOUT-RTCM_3X_TYPE1230_SPI", key |-> 546374407, type |-> "U1", scale |-> "1", unit |-> ""],
    [name |-> "CFG-MSGOUT-RTCM_3X_TYPE1230_UART1", key |-> 546374404, type |-> "U1", scale |-> "1", unit |-> ""],
    [name |-> "CFG-MSGOUT-RTCM_3X_TYPE1230_UART2", key |-> 546374405, type |-> "U1", scale |-> "1", unit |-> ""],
    [name |-> "CFG-MSGOUT-RTCM_3X_TYPE1230_USB", key |-> 546374406, type |-> "U1", scale |-> "1", unit |-> ""],
    [name |-> "CFG-MSGOUT-RTCM_3X_TYPE4072_0_I2C", key |-> 546374398, type |-> "U1", scale |-> "1", unit |-> ""],
    [name |-> "CFG-MSGOUT-RTCM_3X_TYPE4072_0_SPI", key |-> 546374402, type |-> "U1", scale |-> "1", unit |-> ""],
    [name |-> "CFG-MSGOUT-RTCM_3X_TYPE4072_0_UART1", key |-> 546374399, type |-> "U1", scale |-> "1", unit |-> ""],
    [name |-> "CFG-MSGOUT-RTCM_3X_TYPE4072_0_UART2", key |-> 546374400, type |-> "U1", scale |-> "1", unit |-> ""],
    [name |-> "CFG-MSGOUT-RTCM_3X_TYPE4072_0_USB", key |-> 546374401, type |-> "U1", scale |-> "1", unit |-> ""],
    [name |-> "CFG-MSGOUT-RTCM_3X_TYPE4072_1_I2C", key |-> 546374529, type |-> "U1", scale |-> "1", unit |-> ""],
    [name |-> "CFG-MSGOUT-RTCM_3X_TYPE4072_1_SPI", key |-> 546374533, type |-> "U1", scale |-> "1", unit |-> ""],
    [name |-> "CFG-MSGOUT-RTCM_3X_TYPE4072_1_UART1", key |-> 546374530, type |-> "U1", scale |-> "1", unit |-> ""],
    [name |-> "CFG-MSGOUT-RTCM_3X_TYPE4072_1_UART2", key |-> 546374531, type |-> "U1", scale |-> "1", unit |-> ""],
    [name |-> "CFG-MSGOUT-RTCM_3X_TYPE4072_1_USB", key |-> 546374532, type |-> "U1", scale |-> "1", unit |-> ""],
    [name |-> "CFG-MSGOUT-UBX_LOG_INFO_I2C", key |-> 546374233, type |-> "U1", scale |-> "1", unit |-> ""],
    [name |-> "CFG-MSGOUT-UBX_LOG_INFO_SPI", key |-> 546374237, type |-> "U1", scale |-> "1", unit |-> ""],
    [name |-> "CFG-MSGOUT-UBX_LOG_INFO_UART1", key |-> 546374234, type |-> "U1", scale |-> "1", unit |-> ""],
    [name |-> "CFG-MSGOUT-UBX_LOG_INFO_UART2", key |-> 546374235, type |-> "U1", scale |-> "1", unit |-> ""],
    [name |-> "CFG-MSGOUT-UBX_LOG_INFO_USB", key |-> 546374236, type |-> "U1", scale |-> "1", unit |-> ""],
    [name |-> "CFG-MSGOUT-UBX_MON_COMMS_I2C", key |-> 546374479, type |-> "U1", scale |-> "1", unit |-> ""],
    [name |-> "CFG-MSGOUT-UBX_MON_COMMS_SPI", key |-> 546374483, type |-> "U1", scale |-> "1", unit |-> ""],
    [name |-> "CFG-MSGOUT-UBX_MON_COMMS_UART1", key |-> 546374480, type |-> "U1", scale |-> "1", unit |-> ""],
    [name |-> "CFG-MSGOUT-UBX_MON_COMMS_UART2", key |-> 546374481, type |-> "U1", scale |-> "1", unit |-> ""],
    [name |-> "CFG-MSGOUT-UBX_MON_COMMS_USB", key |-> 546374482, type |-> "U1", scale |-> "1", unit |-> ""],
    [name |-> "CFG-MSGOUT-UBX_MON_HW2_I2C", key |-> 546374073, type |-> "U1", scale |-> "1", unit |-> ""],
    [name |-> "CFG-MSGOUT-UBX_MON_HW2_SPI", key |-> 546374077, type |-> "U1", scale |-> "1", unit |-> ""],
    [name |-> "CFG-MSGOUT-UBX_MON_HW2_UART1", key |-> 546374074, type |-> "U1", scale |-> "1", unit |-> ""],
    [name |-> "CFG-MSGOUT-UBX_MON_HW2_UART2", key |-> 546374075, type |-> "U1", scale |-> "1", unit |-> ""],
    [name |-> "CFG-MSGOUT-UBX_MON_HW2_USB", key |-> 546374076, type |-> "U1", scale |-> "1", unit |-> ""],
    [name |-> "CFG-MSGOUT-UBX_MON_HW3_I2C", key |-> 546374484, type |-> "U1", scale |-> "1", unit |-> ""],
    [name |-> "CFG-MSGOUT-UBX_MON_HW3_SPI", key |-> 546374488, type |-> "U1", scale |-> "1", unit |-> ""],
    [name |-> "CFG-MSGOUT-UBX_MON_HW3_UART1", key |-> 546374485, type |-> "U1", scale |-> "1", unit |-> ""],
    [name |-> "CFG-MSGOUT-UBX_MON_HW3_UART2", key |-> 546374486, type |-> "U1", scale |-> "1", unit |-> ""],
    [name |-> "CFG-MSGOUT-UBX_MON_HW3_USB", key |-> 546374487, type |-> "U1", scale |-> "1", unit |-> ""],
    [name |-> "CFG-MSGOUT-UBX_MON_HW_I2C", key |-> 546374068, type |-> "U1", scale |-> "1", unit |-> ""],
    [name |-> "CFG-MSGOUT-UBX_MON_HW_SPI", key |-> 546374072, type |-> "U1", scale |-> "1", unit |-> ""],
    [name |-> "CFG-MSGOUT-UBX_MON_HW_UART1", key |-> 546374069, type |-> "U1", scale |-> "1", unit |-> ""],
    [name |-> "CFG-MSGOUT-UBX_MON_HW_UART2", key |-> 546374070, type |-> "U1", scale |-> "1", unit |-> ""],
    [name |-> "CFG-MSGOUT-UBX_MON_HW_USB", key |-> 546374071, type |-> "U1", scale |-> "1", unit |-> ""],
    [name |-> "CFG-MSGOUT-UBX_MON_IO_I2C", key |-> 546374053, type |-> "U1", scale |-> "1", unit |-> ""],
    [name |-> "CFG-MSGOUT-UBX_MON_IO_SPI", key |-> 546374057, type |-> "U1", scale |-> "1", unit |-> ""],
    [name |-> "CFG-MSGOUT-UBX_MON_IO_UART1", key |-> 546374054, type |-> "U1", scale |-> "1", unit |-> ""],
    [name |-> "CFG-MSGOUT-UBX_MON_IO_UART2", key |-> 546374055, type |-> "U1", scale |-> "1", unit |-> ""],
    [name |-> "CFG-MSGOUT-UBX_MON_IO_USB", key |-> 546374056, type |-> "U1", scale |-> "1", unit |-> ""],
    [name |-> "CFG-MSGOUT-UBX_MON_MSGPP_I2C", key |-> 546374038, type |-> "U1", scale |-> "1", unit |-> ""],
    [name |-> "CFG-MSGOUT-UBX_MON_MSGPP_SPI", key |-> 546374042, type |-> "U1", scale |-> "1", unit |-> ""],
    [name |-> "CFG-MSGOUT-UBX_MON_MSGPP_UART1", key |-> 546374039, type |-> "U1", scale |-> "1", unit |-> ""],
    [name |-> "CFG-MSGOUT-UBX_MON_MSGPP_UART2", key |-> 546374040, type |-> "U1", scale |-> "1", unit |-> ""],
    [name |-> "CFG-MSGOUT-UBX_MON_MSGPP_USB", key |-> 546374041, type |-> "U1", scale |-> "1", unit |-> ""],
    [name |-> "CFG-MSGOUT-UBX_MON_RF_I2C", key |-> 546374489, type |-> "U1", scale |-> "1", unit |-> ""],
    [name |-> "CFG-MSGOUT-UBX_MON_RF_SPI", key |-> 546374493, type |-> "U1", scale |-> "1", unit |-> ""],
    [name |-> "CFG-MSGOUT-UBX_MON_RF_UART1", key |-> 546374490, type |-> "U1", scale |-> "1", unit |-> ""],
    [name |-> "CFG-MSGOUT-UBX_MON_RF_UART2", key |-> 546374491, type |-> "U1", scale |-> "1", unit |-> ""],
    [name |-> "CFG-MSGOUT-UBX_MON_RF_USB", key |-> 546374492, type |-> "U1", scale |-> "1", unit |-> ""],
    [name |-> "CFG-MSGOUT-UBX_MON_RXBUF_I2C", key |-> 546374048, type |-> "U1", scale |-> "1", unit |-> ""],
    [name |-> "CFG-MSGOUT-UBX_MON_RXBUF_SPI", key |-> 546374052, type |-> "U1", scale |-> "1", unit |-> ""],
    [name |-> "CFG-MSGOUT-UBX_MON_RXBUF_UART1", key |-> 546374049, type |-> "U1", scale |-> "1", unit |-> ""],
    [name |-> "CFG-MSGOUT-UBX_MON_RXBUF_UART2", key |-> 546374050, type |-> "U1", scale |-> "1", unit |-> ""],
    [name |-> "CFG-MSGOUT-UBX_MON_RXBUF_USB", key |-> 546374051, type |-> "U1", scale |-> "1", unit |-> ""],
    [name |-> "CFG-MSGOUT-UBX_MON_RXR_I2C", key |-> 546374023, type |-> "U1", scale |-> "1", unit |-> ""],
    [name |-> "CFG-MSGOUT-UBX_MON_RXR_SPI", key |-> 546374027, type |-> "U1", scale |-> "1", unit |-> ""],
    [name |-> "CFG-MSGOUT-UBX_MON_RXR_UART1", key |-> 546374024, type |-> "U1", scale |-> "1", unit |-> ""],
    [name |-> "CFG-MSGOUT-UBX_MON_RXR_UART2", key |-> 546374025, type |-> "U1", scale |-> "1", unit |-> ""],
    [name |-> "CFG-MSGOUT-UBX_MON_RXR_USB", key |-> 546374026, type |-> "U1", scale |-> "1", unit |-> ""],
    [name |-> "CFG-MSGOUT-UBX_MON_TXBUF_I2C", key |-> 546374043, type |-> "U1", scale |-> "1", unit |-> ""],
    [name |-> "CFG-MSGOUT-UBX_MON_TXBUF_SPI", key |-> 546374047, type |-> "U1", scale |-> "1", unit |-> ""],
    [name |-> "CFG-MSGOUT-UBX_MON_TXBUF_UART1", key |-> 546374044, type |-> "U1", scale |-> "1", unit |-> ""],
    [name |-> "CFG-MSGOUT-UBX_MON_TXBUF_UART2", key |-> 546374045, type |-> "U1", scale |-> "1", unit |-> ""],
    [name |-> "CFG-MSGOUT-UBX_MON_TXBUF_USB", key |-> 546374046, type |-> "U1", scale |-> "1", unit |-> ""],
    [name |-> "CFG-MSGOUT-UBX_MON_TXBUF_I2C", key |-> 546374043, type |-> "U1", scale |-> "1", unit |-> ""],
    [name |-> "CFG-MSGOUT-UBX_MON_TXBUF_SPI", key |-> 546374047, type |-> "U1", scale |-> "1", unit |-> ""],
    [name |-> "CFG-MSGOUT-UBX_MON_TXBUF_UART1", key |-> 546374044, type |-> "U1", scale |-> "1", unit |-> ""],
    [name |-> "CFG-MSGOUT-UBX_MON_TXBUF_UART2", key |-> 546374045, type |-> "U1", scale |-> "1", unit |-> ""],
    [name |-> "CFG-MSGOUT-UBX_MON_TXBUF_USB", key |-> 546374046, type |-> "U1", scale |-> "1", unit |-> ""],
    [name |-> "CFG-MSGOUT-UBX_NAV_CLOCK_I2C", key |-> 546373733, type |-> "U1", scale |-> "1", unit |-> ""],
    [name |-> "CFG-MSGOUT-UBX_NAV_CLOCK_SPI", key |-> 546373737, type |-> "U1", scale |-> "1", unit |-> ""],
    [name |-> "CFG-MSGOUT-UBX_NAV_CLOCK_UART1", key |-> 546373734, type |-> "U1", scale |-> "1", unit |-> ""],
    [name |-> "CFG-MSGOUT-UBX_NAV_CLOCK_UART2", key |-> 546373735, type |-> "U1", scale |-> "1", unit |-> ""],
    [name |-> "CFG-MSGOUT-UBX_NAV_CLOCK_USB", key |-> 546373736, type |-> "U1", scale |-> "1", unit |-> ""],
    [name |-> "CFG-MSGOUT-UBX_NAV_DOP_I2C", key |-> 546373688, type |-> "U1", scale |-> "1", unit |-> ""],
    [name |-> "CFG-MSGOUT-UBX_NAV_DOP_SPI", key |-> 546373692, type |-> "U1", scale |-> "1", unit |-> ""],
    [name |-> "CFG-MSGOUT-UBX_NAV_DOP_UART1", key |-> 546373689, type |-> "U1", scale |-> "1", unit |-> ""],
    [name |-> "CFG-MSGOUT-UBX_NAV_DOP_UART2", key |-> 546373690, type |-> "U1", scale |-> "1", unit |-> ""],
    [name |-> "CFG-MSGOUT-UBX_NAV_DOP_USB", key |-> 546373691, type |-> "U1", scale |-> "1", unit |-> ""],
    [name |-> "CFG-MSGOUT-UBX_NAV_EOE_I2C", key |-> 546373983, type |-> "U1", scale |-> "1", unit |-> ""],
    [name |-> "CFG-MSGOUT-UBX_NAV_EOE_SPI", key |-> 546373987, type |-> "U1", scale |-> "1", unit |-> ""],
    [name |-> "CFG-MSGOUT-UBX_NAV_EOE_UART1", key |-> 546373984, type |-> "U1", scale |-> "1", unit |-> ""],
    [name |-> "CFG-MSGOUT-UBX_NAV_EOE_UART2", key |-> 546373985, type |-> "U1", scale |-> "1", unit |-> ""],
    [name |-> "CFG-MSGOUT-UBX_NAV_EOE_USB", key |-> 546373986, type |-> "U1", scale |-> "1", unit |-> ""],
    [name |-> "CFG-MSGOUT-UBX_NAV_GEOFENCE_I2C", key |-> 546373793, type |-> "U1", scale |-> "1", unit |-> ""],
    [name |-> "CFG-MSGOUT-UBX_NAV_GEOFENCE_SPI", key |-> 546373797, type |-> "U1", scale |-> "1", unit |-> ""],
    [name |-> "CFG-MSGOUT-UBX_NAV_GEOFENCE_UART1", key |-> 546373794, type |-> "U1", scale |-> "1", unit |-> ""],
    [name |-> "CFG-MSGOUT-UBX_NAV_GEOFENCE_UART2", key |-> 546373795, type |-> "U1", scale |-> "1", unit |-> ""],
    [name |-> "CFG-MSGOUT-UBX_NAV_GEOFENCE_USB", key |-> 546373796, type |-> "U1", scale |-> "1", unit |-> ""],
    [name |-> "CFG-MSGOUT-UBX_NAV_HPPOSECEF_I2C", key |-> 546373678, type |-> "U1", scale |-> "1", unit |-> ""],
    [name |-> "CFG-MSGOUT-UBX_NAV_HPPOSECEF_SPI", key |-> 546373682, type |-> "U1", scale |-> "1", unit |-> ""],
    [name |-> "CFG-MSGOUT-UBX_NAV_HPPOSECEF_UART1", key |-> 546373679, type |-> "U1", scale |-> "1", unit |-> ""],
    [name |-> "CFG-MSGOUT-UBX_NAV_HPPOSECEF_UART2", key |-> 546373680, type |-> "U1", scale |-> "1", unit |-> ""],
    [name |-> "CFG-MSGOUT-UBX_NAV_HPPOSECEF_USB", key |-> 546373681, type |-> "U1", scale |-> "1", unit |-> ""],
    [name |-> "CFG-MSGOUT-UBX_NAV_HPPOSLLH_I2C", key |-> 546373683, type |-> "U1", scale |-> "1", unit |-> ""],
    [name |-> "CFG-MSGOUT-UBX_NAV_HPPOSLLH_SPI", key |-> 546373687, type |-> "U1", scale |-> "1", unit |-> ""],
    [name |-> "CFG-MSGOUT-UBX_NAV_HPPOSLLH_UART1", key |-> 546373684, type |-> "U1", scale |-> "1", unit |-> ""],
    [name |-> "CFG-MSGOUT-UBX_NAV_HPPOSLLH_UART2", key |-> 546373685, type |-> "U1", scale |-> "1", unit |-> ""],
    [name |-> "CFG-MSGOUT-UBX_NAV_HPPOSLLH_USB", key |-> 546373686, type |-> "U1", scale |-> "1", unit |-> ""],
    [name |-> "CFG-MSGOUT-UBX_NAV_ODO_I2C", key |-> 546373758, type |-> "U1", scale |-> "1", unit |-> ""],
    [name |-> "CFG-MSGOUT-UBX_NAV_ODO_SPI", key |-> 546373762, type |-> "U1", scale |-> "1", unit |-> ""],
    [name |-> "CFG-MSGOUT-UBX_NAV_ODO_UART1", key |-> 546373759, type |-> "U1", scale |-> "1", unit |-> ""],
    [name |-> "CFG-MSGOUT-UBX_NAV_ODO_UART2", key |-> 546373760, type |-> "U1", scale |-> "1", unit |-> ""],
    [name |-> "CFG-MSGOUT-UBX_NAV_ODO_USB", key |-> 546373761, type |-> "U1", scale |-> "1", unit |-> ""],
    [name |-> "CFG-MSGOUT-UBX_NAV_ORB_I2C", key |-> 546373648, type |-> "U1", scale |-> "1", unit |-> ""],
    [name |-> "CFG-MSGOUT-UBX_NAV_ORB_SPI", key |-> 546373652, type |-> "U1", scale |-> "1", unit |-> ""],
    [name |-> "CFG-MSGOUT-UBX_NAV_ORB_UART1", key |-> 546373649, type |-> "U1", scale |-> "1", unit |-> ""],
    [name |-> "CFG-MSGOUT-UBX_NAV_ORB_UART2", key |-> 546373650, type |-> "U1", scale |-> "1", unit |-> ""],
    [name |-> "CFG-MSGOUT-UBX_NAV_ORB_USB", key |-> 546373651, type |-> "U1", scale |-> "1", unit |-> ""],
    [name |-> "CFG-MSGOUT-UBX_NAV_POSECEF_I2C", key |-> 546373668, type |-> "U1", scale |-> "1", unit |-> ""],
    [name |-> "CFG-MSGOUT-UBX_NAV_POSECEF_SPI", key |-> 546373672, type |-> "U1", scale |-> "1", unit |-> ""],
    [name |-> "CFG-MSGOUT-UBX_NAV_POSECEF_UART1", key |-> 546373669, type |-> "U1", scale |-> "1", unit |-> ""],
    [name |-> "CFG-MSGOUT-UBX_NAV_POSECEF_UART2", key |-> 546373670, type |-> "U1", scale |-> "1", unit |-> ""],
    [name |-> "CFG-MSGOUT-UBX_NAV_POSECEF_USB", key |-> 546373671, type |-> "U1", scale |-> "1", unit |-> ""],
    [name |-> "CFG-MSGOUT-UBX_NAV_POSLLH_I2C", key |-> 546373673, type |-> "U1", scale |-> "1", unit |-> ""],
    [name |-> "CFG-MSGOUT-UBX_NAV_POSLLH_SPI", key |-> 546373677, type |-> "U1", scale |-> "1", unit |-> ""],
    [name |-> "CFG-MSGOUT-UBX_NAV_POSLLH_UART1", key |-> 546373674, type |-> "U1", scale |-> "1", unit |-> ""],
    [name |-> "CFG-MSGOUT-UBX_NAV_POSLLH_UART2", key |-> 546373675, type |-> "U1", scale |-> "1", unit |-> ""],
    [name |-> "CFG-MSGOUT-UBX_NAV_POSLLH_USB", key |-> 546373676, type |-> "U1", scale |-> "1", unit |-> ""],
    [name |-> "CFG-MSGOUT-UBX_NAV_PVT_I2C", key |-> 546373638, type |-> "U1", scale |-> "1", unit |-> ""],
    [name |-> "CFG-MSGOUT-UBX_NAV_PVT_SPI", key |-> 546373642, type |-> "U1", scale |-> "1", unit |-> ""],
    [name |-> "CFG-MSGOUT-UBX_NAV_PVT_UART1", key |-> 546373639, type |-> "U1", scale |-> "1", unit |-> ""],
    [name |-> "CFG-MSGOUT-UBX_NAV_PVT_UART2", key |-> 546373640, type |-> "U1", scale |-> "1", unit |-> ""],
    [name |-> "CFG-MSGOUT-UBX_NAV_PVT_USB", key |-> 546373641, type |-> "U1", scale |-> "1", unit |-> ""],
    [name |-> "CFG-MSGOUT-UBX_NAV_RELPOSNED_I2C", key |-> 546373773, type |-> "U1", scale |-> "1", unit |-> ""],
    [name |-> "CFG-MSGOUT-UBX_NAV_RELPOSNED_SPI", key |-> 546373777, type |-> "U1", scale |-> "1", unit |-> ""],
    [name |-> "CFG-MSGOUT-UBX_NAV_RELPOSNED_UART1", key |-> 546373774, type |-> "U1", scale |-> "1", unit |-> ""],
    [name |-> "CFG-MSGOUT-UBX_NAV_RELPOSNED_UART2", key |-> 546373775, type |-> "U1", scale |-> "1", unit |-> ""],
    [name |-> "CFG-MSGOUT-UBX_NAV_RELPOSNED_USB", key |-> 546373776, type |-> "U1", scale |-> "1", unit |-> ""],
    [name |-> "CFG-MSGOUT-UBX_NAV_SAT_I2C", key |-> 546373653, type |-> "U1", scale |-> "1", unit |-> ""],
    [name |-> "CFG-MSGOUT-UBX_NAV_SAT_SPI", key |-> 546373657, type |-> "U1", scale |-> "1", unit |-> ""],
    [name |-> "CFG-MSGOUT-UBX_NAV_SAT_UART1", key |-> 546373654, type |-> "U1", scale |-> "1", unit |-> ""],
    [name |-> "CFG-MSGOUT-UBX_NAV_SAT_UART2", key |-> 546373655, type |-> "U1", scale |-> "1", unit |-> ""],
    [name |-> "CFG-MSGOUT-UBX_NAV_SAT_USB", key |-> 546373656, type |-> "U1", scale |-> "1", unit |-> ""],
    [name |-> "CFG-MSGOUT-UBX_NAV_SBAS_I2C", key |-> 546373738, type |-> "U1", scale |-> "1", unit |-> ""],
    [name |-> "CFG-MSGOUT-UBX_NAV_SBAS_SPI", key |-> 546373742, type |-> "U1", scale |-> "1", unit |-> ""],
    [name |-> "CFG-MSGOUT-UBX_NAV_SBAS_UART1", key |-> 546373739, type |-> "U1", scale |-> "1", unit |-> ""],
    [name |-> "CFG-MSGOUT-UBX_NAV_SBAS_UART2", key |-> 546373740, type |-> "U1", scale |-> "1", unit |-> ""],
    [name |-> "CFG-MSGOUT-UBX_NAV_SBAS_USB", key |-> 546373741, type |-> "U1", scale |-> "1", unit |-> ""],
    [name |-> "CFG-MSGOUT-UBX_NAV_SIG_I2C", key |-> 546374469, type |-> "U1", scale |-> "1", unit |-> ""],
    [name |-> "CFG-MSGOUT-UBX_NAV_SIG_SPI", key |-> 546374473, type |-> "U1", scale |-> "1", unit |-> ""],
    [name |-> "CFG-MSGOUT-UBX_NAV_SIG_UART1", key |-> 546374470, type |-> "U1", scale |-> "1", unit |-> ""],
    [name |-> "CFG-MSGOUT-UBX_NAV_SIG_UART2", key |-> 546374471, type |-> "U1", scale |-> "1", unit |-> ""],
    [name |-> "CFG-MSGOUT-UBX_NAV_SIG_USB", key |-> 546374472, type |-> "U1", scale |-> "1", unit |-> ""],
    [name |-> "CFG-MSGOUT-UBX_NAV_STATUS_I2C", key |-> 546373658, type |-> "U1", scale |-> "1", unit |-> ""],
    [name |-> "CFG-MSGOUT-UBX_NAV_STATUS_SPI", key |-> 546373662, type |-> "U1", scale |-> "1", unit |-> ""],
    [name |-> "CFG-MSGOUT-UBX_NAV_STATUS_UART1", key |-> 546373659, type |-> "U1", scale |-> "1", unit |-> ""],
    [name |-> "CFG-MSGOUT-UBX_NAV_STATUS_UART2", key |-> 546373660, type |-> "U1", scale |-> "1", unit |-> ""],
    [name |-> "CFG-MSGOUT-UBX_NAV_STATUS_USB", key |-> 546373661, type |-> "U1", scale |-> "1", unit |-> ""],
    [name |-> "CFG-MSGOUT-UBX_NAV_SVIN_I2C", key |-> 546373768, type |-> "U1", scale |-> "1", unit |-> ""],
    [name |-> "CFG-MSGOUT-UBX_NAV_SVIN_SPI", key |-> 546373772, type |-> "U1", scale |-> "1", unit |-> ""],
    [name |-> "CFG-MSGOUT-UBX_NAV_SVIN_UART1", key |-> 546373769, type |-> "U1", scale |-> "1", unit |-> ""],
    [name |-> "CFG-MSGOUT-UBX_NAV_SVIN_UART2", key |-> 546373770, type |-> "U1", scale |-> "1", unit |-> ""],
    [name |-> "CFG-MSGOUT-UBX_NAV_SVIN_USB", key |-> 546373771, type |-> "U1", scale |-> "1", unit |-> ""],
    [name |-> "CFG-MSGOUT-UBX_NAV_TIMEBDS_I2C", key |-> 546373713, type |-> "U1", scale |-> "1", unit |-> ""],
    [name |-> "CFG-MSGOUT-UBX_NAV_TIMEBDS_SPI", key |-> 546373717, type |-> "U1", scale |-> "1", unit |-> ""],
    [name |-> "CFG-MSGOUT-UBX_NAV_TIMEBDS_UART1", key |-> 546373714, type |-> "U1", scale |-> "1", unit |-> ""],
    [name |-> "CFG-MSGOUT-UBX_NAV_TIMEBDS_UART2", key |-> 546373715, type |-> "U1", scale |-> "1", unit |-> ""],
    [name |-> "CFG-MSGOUT-UBX_NAV_TIMEBDS_USB", key |-> 546373716, type |-> "U1", scale |-> "1", unit |-> ""],
    [name |-> "CFG-MSGOUT-UBX_NAV_TIMEGAL_I2C", key |-> 546373718, type |-> "U1", scale |-> "1", unit |-> ""],
    [name |-> "CFG-MSGOUT-UBX_NAV_TIMEGAL_SPI", key |-> 546373722, type |-> "U1", scale |-> "1", unit |-> ""],
    [name |-> "CFG-MSGOUT-UBX_NAV_TIMEGAL_UART1", key |-> 546373719, type |-> "U1", scale |-> "1", unit |-> ""],
    [name |-> "CFG-MSGOUT-UBX_NAV_TIMEGAL_UART2", key |-> 546373720, type |-> "U1", scale |-> "1", unit |-> ""],
    [name |-> "CFG-MSGOUT-UBX_NAV_TIMEGAL_USB", key |-> 546373721, type |-> "U1", scale |-> "1", unit |-> ""],
    [name |-> "CFG-MSGOUT-UBX_NAV_TIMEGLO_I2C", key |-> 546373708, type |-> "U1", scale |-> "1", unit |-> ""],
    [name |-> "CFG-MSGOUT-UBX_NAV_TIMEGLO_SPI", key |-> 546373712, type |-> "U1", scale |-> "1", unit |-> ""],
    [name |-> "CFG-MSGOUT-UBX_NAV_TIMEGLO_UART1", key |-> 546373709, type |-> "U1", scale |-> "1", unit |-> ""],
    [name |-> "CFG-MSGOUT-UBX_NAV_TIMEGLO_UART2", key |-> 546373710, type |-> "U1", scale |-> "1", unit |-> ""],
    [name |-> "CFG-MSGOUT-UBX_NAV_TIMEGLO_USB", key |-> 546373711, type |-> "U1", scale |-> "1", unit |-> ""],
    [name |-> "CFG-MSGOUT-UBX_NAV_TIMEGPS_I2C", key |-> 546373703, type |-> "U1", scale |-> "1", unit |-> ""],
    [name |-> "CFG-MSGOUT-UBX_NAV_TIMEGPS_SPI", key |-> 546373707, type |-> "U1", scale |-> "1", unit |-> ""],
    [name |-> "CFG-MSGOUT-UBX_NAV_TIMEGPS_UART1", key |-> 546373704, type |-> "U1", scale |-> "1", unit |-> ""],
    [name |-> "CFG-MSGOUT-UBX_NAV_TIMEGPS_UART2", key |-> 546373705, type |-> "U1", scale |-> "1", unit |-> ""],
    [name |-> "CFG-MSGOUT-UBX_NAV_TIMEGPS_USB", key |-> 546373706, type |-> "U1", scale |-> "1", unit |-> ""],
    [name |-> "CFG-MSGOUT-UBX_NAV_TIMELS_I2C", key |-> 546373728, type |-> "U1", scale |-> "1", unit |-> ""],
    [name |-> "CFG-MSGOUT-UBX_NAV_TIMELS_SPI", key |-> 546373732, type |-> "U1", scale |-> "1", unit |-> ""],
    [name |-> "CFG-MSGOUT-UBX_NAV_TIMELS_UART1", key |-> 546373729, type |-> "U1", scale |-> "1", unit |-> ""],
    [name |-> "CFG-MSGOUT-UBX_NAV_TIMELS_UART2", key |-> 546373730, type |-> "U1", scale |-> "1", unit |-> ""],
    [name |-> "CFG-MSGOUT-UBX_NAV_TIMELS_USB", key |-> 546373731, type |-> "U1", scale |-> "1", unit |-> ""],
    [name |-> "CFG-MSGOUT-UBX_NAV_TIMEUTC_I2C", key |-> 546373723, type |-> "U1", scale |-> "1", unit |-> ""],
    [name |-> "CFG-MSGOUT-UBX_NAV_TIMEUTC_SPI", key |-> 546373727, type |-> "U1", scale |-> "1", unit |-> ""],
    [name |-> "CFG-MSGOUT-UBX_NAV_TIMEUTC_UART1", key |-> 546373724, type |-> "U1", scale |-> "1", unit |-> ""],
    [name |-> "CFG-MSGOUT-UBX_NAV_TIMEUTC_UART2", key |-> 546373725, type |-> "U1", scale |-> "1", unit |-> ""],
    [name |-> "CFG-MSGOUT-UBX_NAV_TIMEUTC_USB", key |-> 546373726, type |-> "U1", scale |-> "1", unit |-> ""],
    [name |-> "CFG-MSGOUT-UBX_NAV_VELECEF_I2C", key |-> 546373693, type |-> "U1", scale |-> "1", unit |-> ""],
    [name |-> "CFG-MSGOUT-UBX_NAV_VELECEF_SPI", key |-> 546373697, type |-> "U1", scale |-> "1", unit |-> ""],
    [name |-> "CFG-MSGOUT-UBX_NAV_VELECEF_UART1", key |-> 546373694, type |-> "U1", scale |-> "1", unit |-> ""],
    [name |-> "CFG-MSGOUT-UBX_NAV_VELECEF_UART2", key |-> 546373695, type |-> "U1", scale |-> "1", unit |-> ""],
    [name |-> "CFG-MSGOUT-UBX_NAV_VELECEF_USB", key |-> 546373696, type |-> "U1", scale |-> "1", unit |-> ""],
    [name |-> "CFG-MSGOUT-UBX_NAV_VELNED_I2C", key |-> 546373698, type |-> "U1", scale |-> "1", unit |-> ""],
    [name |-> "CFG-MSGOUT-UBX_NAV_VELNED_SPI", key |-> 546373702, type |-> "U1", scale |-> "1", unit |-> ""],
    [name |-> "CFG-MSGOUT-UBX_NAV_VELNED_UART1", key |-> 546373699, type |-> "U1", scale |-> "1", unit |-> ""],
    [name |-> "CFG-MSGOUT-UBX_NAV_VELNED_UART2", key |-> 546373700, type |-> "U1", scale |-> "1", unit |-> ""],
    [name |-> "CFG-MSGOUT-UBX_NAV_VELNED_USB", key |-> 546373701, type |-> "U1", scale |-> "1", unit |-> ""],
    [name |-> "CFG-MSGOUT-UBX_RXM_MEASX_I2C", key |-> 546374148, type |-> "U1", scale |-> "1", unit |-> ""],
    [name |-> "CFG-MSGOUT-UBX_RXM_MEASX_SPI", key |-> 546374152, type |-> "U1", scale |-> "1", unit |-> ""],
    [name |-> "CFG-MSGOUT-UBX_RXM_MEASX_UART1", key |-> 546374149, type |-> "U1", scale |-> "1", unit |-> ""],
    [name |-> "CFG-MSGOUT-UBX_RXM_MEASX_UART2", key |-> 546374150, type |-> "U1", scale |-> "1", unit |-> ""],
    [name |-> "CFG-MSGOUT-UBX_RXM_MEASX_USB", key |-> 546374151, type |-> "U1", scale |-> "1", unit |-> ""],
    [name |-> "CFG-MSGOUT-UBX_RXM_RAWX_I2C", key |-> 546374308, type |-> "U1", scale |-> "1", unit |-> ""],
    [name |-> "CFG-MSGOUT-UBX_RXM_RAWX_SPI", key |-> 546374312, type |-> "U1", scale |-> "1", unit |-> ""],
    [name |-> "CFG-MSGOUT-UBX_RXM_RAWX_UART1", key |-> 546374309, type |-> "U1", scale |-> "1", unit |-> ""],
    [name |-> "CFG-MSGOUT-UBX_RXM_RAWX_UART2", key |-> 546374310, type |-> "U1", scale |-> "1", unit |-> ""],
    [name |-> "CFG-MSGOUT-UBX_RXM_RAWX_USB", key |-> 546374311, type |-> "U1", scale |-> "1", unit |-> ""],
    [name |-> "CFG-MSGOUT-UBX_RXM_RLM_I2C", key |-> 546374238, type |-> "U1", scale |-> "1", unit |-> ""],
    [name |-> "CFG-MSGOUT-UBX_RXM_RLM_SPI", key |-> 546374242, type |-> "U1", scale |-> "1", unit |-> ""],
    [name |-> "CFG-MSGOUT-UBX_RXM_RLM_UART1", key |-> 546374239, type |-> "U1", scale |-> "1", unit |-> ""],
    [name |-> "CFG-MSGOUT-UBX_RXM_RLM_UART2", key |-> 546374240, type |-> "U1", scale |-> "1", unit |-> ""],
    [name |-> "CFG-MSGOUT-UBX_RXM_RLM_USB", key |-> 546374241, type |-> "U1", scale |-> "1", unit |-> ""],
    [name |-> "CFG-MSGOUT-UBX_RXM_RTCM_I2C", key |-> 546374248, type |-> "U1", scale |-> "1", unit |-> ""],
    [name |-> "CFG-MSGOUT-UBX_RXM_RTCM_SPI", key |-> 546374252, type |-> "U1", scale |-> "1", unit |-> ""],
    [name |-> "CFG-MSGOUT-UBX_RXM_RTCM_UART1", key |-> 546374249, type |-> "U1", scale |-> "1", unit |-> ""],
    [name |-> "CFG-MSGOUT-UBX_RXM_RTCM_UART2", key |-> 546374250, type |-> "U1", scale |-> "1", unit |-> ""],
    [name |-> "CFG-MSGOUT-UBX_RXM_RTCM_USB", key |-> 546374251, type |-> "U1", scale |-> "1", unit |-> ""],
    [name |-> "CFG-MSGOUT-UBX_RXM_SFRBX_I2C", key |-> 546374193, type |-> "U1", scale |-> "1", unit |-> ""],
    [name |-> "CFG-MSGOUT-UBX_RXM_SFRBX_SPI", key |-> 546374197, type |-> "U1", scale |-> "1", unit |-> ""],
    [name |-> "CFG-MSGOUT-UBX_RXM_SFRBX_UART1", key |-> 546374194, type |-> "U1", scale |-> "1", unit |-> ""],
    [name |-> "CFG-MSGOUT-UBX_RXM_SFRBX_UART2", key |-> 546374195, type |-> "U1", scale |-> "1", unit |-> ""],
    [name |-> "CFG-MSGOUT-UBX_RXM_SFRBX_USB", key |-> 546374196, type |-> "U1", scale |-> "1", unit |-> ""],
    [name |-> "CFG-MSGOUT-UBX_TIM_SVIN_I2C", key |-> 546373783, type |-> "U1", scale |-> "1", unit |-> ""],
    [name |-> "CFG-MSGOUT-UBX_TIM_SVIN_SPI", key |-> 546373787, type |-> "U1", scale |-> "1", unit |-> ""],
    [name |-> "CFG-MSGOUT-UBX_TIM_SVIN_UART1", key |-> 546373784, type |-> "U1", scale |-> "1", unit |-> ""],
    [name |-> "CFG-MSGOUT-UBX_TIM_SVIN_UART2", key |-> 546373785, type |-> "U1", scale |-> "1", unit |-> ""],
    [name |-> "CFG-MSGOUT-UBX_TIM_SVIN_USB", key |-> 546373786, type |-> "U1", scale |-> "1", unit |-> ""],
    [name |-> "CFG-MSGOUT-UBX_TIM_TM2_I2C", key |-> 546374008, type |-> "U1", scale |-> "1", unit |-> ""],
    [name |-> "CFG-MSGOUT-UBX_TIM_TM2_SPI", key |-> 546374012, type |-> "U1", scale |-> "1", unit |-> ""],
    [name |-> "CFG-MSGOUT-UBX_TIM_TM2_UART1", key |-> 546374009, type |-> "U1", scale |-> "1", unit |-> ""],
    [name |-> "CFG-MSGOUT-UBX_TIM_TM2_UART2", key |-> 546374010, type |-> "U1", scale |-> "1", unit |-> ""],
    [name |-> "CFG-MSGOUT-UBX_TIM_TM2_USB", key |-> 546374011, type |-> "U1", scale |-> "1", unit |-> ""],
    [name |-> "CFG-MSGOUT-UBX_TIM_TP_I2C", key |-> 546374013, type |-> "U1", scale |-> "1", unit |-> ""],
    [name |-> "CFG-MSGOUT-UBX_TIM_TP_SPI", key |-> 546374017, type |-> "U1", scale |-> "1", unit |-> ""],
    [name |-> "CFG-MSGOUT-UBX_TIM_TP_UART1", key |-> 546374014, type |-> "U1", scale |-> "1", unit |-> ""],
    [name |-> "CFG-MSGOUT-UBX_TIM_TP_UART2", key |-> 546374015, type |-> "U1", scale |-> "1", unit |-> ""],
    [name |-> "CFG-MSGOUT-UBX_TIM_TP_USB", key |-> 546374016, type |-> "U1", scale |-> "1", unit |-> ""],
    [name |-> "CFG-MSGOUT-UBX_TIM_VRFY_I2C", key |-> 546373778, type |-> "U1", scale |-> "1", unit |-> ""],
    [name |-> "CFG-MSGOUT-UBX_TIM_VRFY_SPI", key |-> 546373782, type |-> "U1", scale |-> "1", unit |-> ""],
    [name |-> "CFG-MSGOUT-UBX_TIM_VRFY_UART1", key |-> 546373779, type |-> "U1", scale |-> "1", unit |-> ""],
    [name |-> "CFG-MSGOUT-UBX_TIM_VRFY_UART2", key |-> 546373780, type |-> "U1", scale |-> "1", unit |-> ""],
    [name |-> "CFG-MSGOUT-UBX_TIM_VRFY_USB", key |-> 546373781, type |-> "U1", scale |-> "1", unit |-> ""],
    [name |-> "CFG-NAVHPG-DGNSSMODE", key |-> 538181649, type |-> "E1", scale |-> "1", unit |-> ""],
    [name |-> "CFG-NAVSPG-FIXMODE", key |-> 537985041, type |-> "E1", scale |-> "1", unit |-> ""],
    [name |-> "CFG-NAVSPG-INIFIX3D", key |-> 269549587, type |-> "L", scale |-> "1", unit |-> ""],
    [name |-> "CFG-NAVSPG-WKNROLLOVER", key |-> 806420503, type |-> "U2", scale |-> "1", unit |-> ""],
    [name |-> "CFG-NAVSPG-USE_PPP", key |-> 269549593, type |-> "L", scale |-> "1", unit |-> ""],
    [name |-> "CFG-NAVSPG-UTCSTANDARD", key |-> 537985052, type |-> "E1", scale |-> "1", unit |-> ""],
    [name |-> "CFG-NAVSPG-DYNMODEL", key |-> 537985057, type |-> "E1", scale |-> "1", unit |-> ""],
    [name |-> "CFG-NAVSPG-ACKAIDING", key |-> 269549605, type |-> "L", scale |-> "1", unit |-> ""],
    [name |-> "CFG-NAVSPG-USE_USRDAT", key |-> 269549665, type |-> "L", scale |-> "1", unit |-> ""],
    [name |-> "CFG-NAVSPG-USRDAT_MAJA", key |-> 1343291490, type |-> "R8", scale |-> "1", unit |-> "m"],
    [name |-> "CFG-NAVSPG-USRDAT_FLAT", key |-> 1343291491, type |-> "R8", scale |-> "1", unit |-> ""],
    [name |-> "CFG-NAVSPG-USRDAT_DX", key |-> 1074856036, type |-> "R4", scale |-> "1", unit |-> "m"],
    [name |-> "CFG-NAVSPG-USRDAT_DY", key |-> 1074856037, type |-> "R4", scale |-> "1", unit |-> "m"],
    [name |-> "CFG-NAVSPG-USRDAT_DZ", key |-> 1074856038, type |-> "R4", scale |-> "1", unit |-> "m"],
    [name |-> "CFG-NAVSPG-USRDAT_ROTX", key |-> 1074856039, type |-> "R4", scale |-> "1", unit |-> "arcsec"],
    [name |-> "CFG-NAVSPG-USRDAT_ROTY", key |-> 1074856040, type |-> "R4", scale |-> "1", unit |-> "arcsec"],
    [name |-> "CFG-NAVSPG-USRDAT_ROTZ", key |-> 1074856041, type |-> "R4", scale |-> "1", unit |-> "arcsec"],
    [name |-> "CFG-NAVSPG-USRDAT_SCALE", key |-> 1074856042, type |-> "R4", scale |-> "1", unit |-> "ppm"],
    [name |-> "CFG-NAVSPG-INFIL_MINSVS", key |-> 537985185, type |-> "U1", scale |-> "1", unit |-> ""],
    [name |-> "CFG-NAVSPG-INFIL_MAXSVS", key |-> 537985186, type |-> "U1", scale |-> "1", unit |-> ""],
    [name |-> "CFG-NAVSPG-INFIL_MINCNO", key |-> 537985187, type |-> "U1", scale |-> "1", unit |-> "dBHz"],
    [name |-> "CFG-NAVSPG-INFIL_MINELEV", key |-> 537985188, type |-> "I1", scale |-> "1", unit |-> "deg"],
    [name |-> "CFG-NAVSPG-INFIL_NCNOTHRS", key |-> 537985194, type |-> "U1", scale |-> "1", unit |-> ""],
    [name |-> "CFG-NAVSPG-INFIL_CNOTHRS", key |-> 537985195, type |-> "U1", scale |-> "1", unit |-> ""],
    [name |-> "CFG-NAVSPG-OUTFIL_PDOP", key |-> 806420657, type |-> "U2", scale |-> "0.1", unit |-> ""],
    [name |-> "CFG-NAVSPG-OUTFIL_TDOP", key |-> 806420658, type |-> "U2", scale |-> "0.11", unit |-> ""],
    [name |-> "CFG-NAVSPG-OUTFIL_PACC", key |-> 806420659, type |-> "U2", scale |-> "1", unit |-> "m"],
    [name |-> "CFG-NAVSPG-OUTFIL_TACC", key |-> 806420660, type |-> "U2", scale |-> "1", unit |-> "m"],
    [name |-> "CFG-NAVSPG-OUTFIL_FACC", key |-> 806420661, type |-> "U2", scale |-> "0.01", unit |-> "m/s"],
    [name |-> "CFG-NAVSPG-CONSTR_ALT", key |-> 1074856129, type |-> "I4", scale |-> "0.01", unit |-> "m"],
    [name |-> "CFG-NAVSPG-CONSTR_ALTVAR", key |-> 1074856130, type |-> "U4", scale |-> "0.0001", unit |-> "M^2"],
    [name |-> "CFG-NAVSPG-CONSTR_DGNSSTO", key |-> 537985220, type |-> "U1", scale |-> "1", unit |-> "s"],
    [name |-> "CFG-NMEA-PROTVER", key |-> 546504705, type |-> "E1", scale |-> "1", unit |-> ""],
    [name |-> "CFG-NMEA-MAXSVS", key |-> 546504706, type |-> "E1", scale |-> "1", unit |-> ""],
    [name |-> "CFG-NMEA-COMPAT", key |-> 278069251, type |-> "L", scale |-> "1", unit |-> ""],
    [name |-> "CFG-NMEA-CONSIDER", key |-> 278069252, type |-> "L", scale |-> "1", unit |-> ""],
    [name |-> "CFG-NMEA-LIMIT82", key |-> 278069253, type |-> "L", scale |-> "1", unit |-> ""],
    [name |-> "CFG-NMEA-HIGHPREC", key |-> 278069254, type |-> "L", scale |-> "1", unit |-> ""],
    [name |-> "CFG-NMEA-SVNUMBERING", key |-> 546504711, type |-> "E1", scale |-> "1", unit |-> ""],
    [name |-> "CFG-NMEA-FILT_GPS", key |-> 278069265, type |-> "L", scale |-> "1", unit |-> ""],
    [name |-> "CFG-NMEA-FILT_SBAS", key |-> 278069266, type |-> "L", scale |-> "1", unit |-> ""],
    [name |-> "CFG-NMEA-FILT_QZSS", key |-> 278069269, type |-> "L", scale |-> "1", unit |-> ""],
    [name |-> "CFG-NMEA-FILT_GLO", key |-> 278069270, type |-> "L", scale |-> "1", unit |-> ""],
    [name |-> "CFG-NMEA-FILT_BDS", key |-> 278069271, type |-> "L", scale |-> "1", unit |-> ""],
    [name |-> "CFG-NMEA-OUT_INVFIX", key |-> 278069281, type |-> "L", scale |-> "1", unit |-> ""],
    [name |-> "CFG-NMEA-OUT_MSKFIX", key |-> 278069282, type |-> "L", scale |-> "1", unit |-> ""],
    [name |-> "CFG-NMEA-OUT_INVTIME", key |-> 278069283, type |-> "L", scale |-> "1", unit |-> ""],
    [name |-> "CFG-NMEA-OUT_INVDATE", key |-> 278069284, type |-> "L", scale |-> "1", unit |-> ""],
    [name |-> "CFG-NMEA-OUT_ONLYGPS", key |-> 278069285, type |-> "L", scale |-> "1", unit |-> ""],
    [name |-> "CFG-NMEA-OUT_FROZENCOG", key |-> 278069286, type |-> "L", scale |-> "1", unit |-> ""],
    [name |-> "CFG-NMEA-MAINTALKERID", key |-> 546504753, type |-> "E1", scale |-> "1", unit |-> ""],
    [name |-> "CFG-NMEA-GSVTALKERID", key |-> 546504754, type |-> "E1", scale |-> "1", unit |-> ""],
    [name |-> "CFG-NMEA-BDSTALKERID", key |-> 814940211, type |-> "U2", scale |-> "1", unit |-> ""],
    [name |-> "CFG-ODO-USE_ODO", key |-> 270663681, type |-> "L", scale |-> "1", unit |-> ""],
    [name |-> "CFG-ODO-USE_COG", key |-> 270663682, type |-> "L", scale |-> "1", unit |-> ""],
    [name |-> "CFG-ODO-OUTLPVEL", key |-> 270663683, type |-> "L", scale |-> "1", unit |-> ""],
    [name |-> "CFG-ODO-OUTLPCOG", key |-> 270663684, type |-> "L", scale |-> "1", unit |-> ""],
    [name |-> "CFG-ODO-PROFILE", key |-> 539099141, type |-> "E1", scale |-> "1", unit |-> ""],
    [name |-> "CFG-ODO-COGMAXSPEED", key |-> 539099169, type |-> "U1", scale |-> "1", unit |-> "m/s"],
    [name |-> "CFG-ODO-COGMAXPOSACC", key |-> 539099170, type |-> "U1", scale |-> "1", unit |-> ""],
    [name |-> "CFG-ODO-COGLPGAIN", key |-> 539099186, type |-> "", scale |-> "1", unit |-> ""],
    [name |-> "CFG-ODO-VELLPGAIN", key |-> 539099185, type |-> "U1", scale |-> "1", unit |-> ""],
    [name |-> "CFG-RATE-MEAS", key |-> 807469057, type |-> "U2", scale |-> "0.001", unit |-> "s"],
    [name |-> "CFG-RATE-NAV", key |-> 807469058, type |-> "U2", scale |-> "1", unit |-> ""],
    [name |-> "CFG-RATE-TIMEREF", key |-> 539033603, type |-> "E1", scale |-> "1", unit |-> ""],
    [name |-> "CFG-RINV-DUMP", key |-> 281477121, type |-> "L", scale |-> "1", unit |-> ""],
    [name |-> "CFG-RINV-BINARY", key |-> 281477122, type |-> "L", scale |-> "1", unit |-> ""],
    [name |-> "CFG-RINV-DATA_SIZE", key |-> 549912579, type |-> "U1", scale |-> "1", unit |-> ""],
    [name |-> "CFG-RINV-CHUNK0", key |-> 1355218948, type |-> "X8", scale |-> "1", unit |-> ""],
    [name |-> "CFG-RINV-CHUNK1", key |-> 1355218949, type |-> "X8", scale |-> "1", unit |-> ""],
    [name |-> "CFG-RINV-CHUNK2", key |-> 1355218950, type |-> "X8", scale |-> "1", unit |-> ""],
    [name |-> "CFG-RINV-CHUNK3", key |-> 1355218951, type |-> "X8", scale |-> "1", unit |-> ""],
    [name |-> "CFG-SBAS-USE_TESTMODE", key |-> 271974402, type |-> "L", scale |-> "1", unit |-> ""],
    [name |-> "CFG-SBAS-USE_RANGING", key |-> 271974403, type |-> "L", scale |-> "1", unit |-> ""],
    [name |-> "CFG-SBAS-USE_DIFFCORR", key |-> 271974404, type |-> "L", scale |-> "1", unit |-> ""],
    [name |-> "CFG-SBAS-USE_INTEGRITY", key |-> 271974405, type |-> "L", scale |-> "1", unit |-> ""],
    [name |-> "CFG-SBAS-PRNSCANMASK", key |-> 1345716230, type |-> "X8", scale |-> "1", unit |-> ""],
    [name |-> "CFG-SIGNAL-GPS_ENA", key |-> 271646751, type |-> "L", scale |-> "1", unit |-> ""],
    [name |-> "CFG-SIGNAL-GPS_L1CA_ENA", key |-> 271646721, type |-> "L", scale |-> "1", unit |-> ""],
    [name |-> "CFG-SIGNAL-GPS_L2C_ENA", key |-> 271646723, type |-> "L", scale |-> "1", unit |-> ""],
    [name |-> "CFG-SIGNAL-SBAS_ENA", key |-> 271646752, type |-> "L", scale |-> "1", unit |-> ""],
    [name |-> "CFG-SIGNAL-SBAS_L1CA_ENA", key |-> 271646725, type |-> "L", scale |-> "1", unit |-> ""],
    [name |-> "CFG-SIGNAL-GAL_ENA", key |-> 271646753, type |-> "L", scale |-> "1", unit |-> ""],
    [name |-> "CFG-SIGNAL-GAL_E1_ENA", key |-> 271646727, type |-> "L", scale |-> "1", unit |-> ""],
    [name |-> "CFG-SIGNAL-GAL_E5B_ENA", key |-> 271646730, type |-> "L", scale |-> "1", unit |-> ""],
    [name |-> "CFG-SIGNAL-BDS_ENA", key |-> 271646754, type |-> "L", scale |-> "1", unit |-> ""],
    [name |-> "CFG-SIGNAL-BDS_B1_ENA", key |-> 271646733, type |-> "L", scale |-> "1", unit |-> ""],
    [name |-> "CFG-SIGNAL-BDS_B2_ENA", key |-> 271646734, type |-> "L", scale |-> "1", unit |-> ""],
    [name |-> "CFG-SIGNAL-QZSS_ENA", key |-> 271646756, type |-> "L", scale |-> "1", unit |-> ""],
    [name |-> "CFG-SIGNAL-QZSS_L1CA_ENA", key |-> 271646738, type |-> "L", scale |-> "1", unit |-> ""],
    [name |-> "CFG-SIGNAL-QZSS_L1S_ENA", key |-> 271646740, type |-> "L", scale |-> "1", unit |-> ""],
    [name |-> "CFG-SIGNAL-QZSS_L2C_ENA", key |-> 271646741, type |-> "L", scale |-> "1", unit |-> ""],
    [name |-> "CFG-SIGNAL-GLO_ENA", key |-> 271646757, type |-> "L", scale |-> "1", unit |-> ""],
    [name |-> "CFG-SIGNAL-GLO_L1_ENA", key |-> 271646744, type |-> "L", scale |-> "1", unit |-> ""],
    [name |-> "CFG-SIGNAL-GLO_L2_ENA", key |-> 271646746, type |-> "L", scale |-> "1", unit |-> ""],
    [name |-> "CFG-SPI-MAXFF", key |-> 543424513, type |-> "U1", scale |-> "1", unit |-> ""],
    [name |-> "CFG-SPI-CPOLARITY", key |-> 274989058, type |-> "L", scale |-> "1", unit |-> ""],
    [name |-> "CFG-SPI-CPHASE", key |-> 274989059, type |-> "L", scale |-> "1", unit |-> ""],
    [name |-> "CFG-SPI-EXTENDEDTIMEOUT", key |-> 274989061, type |-> "L", scale |-> "1", unit |-> ""],
    [name |-> "CFG-SPI-ENABLED", key |-> 274989062, type |-> "L", scale |-> "1", unit |-> ""],
    [name |-> "CFG-SPIINPROT-UBX", key |-> 276365313, type |-> "L", scale |-> "1", unit |-> ""],
    [name |-> "CFG-SPIINPROT-NMEA", key |-> 276365314, type |-> "L", scale |-> "1", unit |-> ""],
    [name |-> "CFG-SPIINPROT-RTCM2X", key |-> 276365315, type |-> "L", scale |-> "1", unit |-> ""],
    [name |-> "CFG-SPIINPROT-RTCM3X", key |-> 276365316, type |-> "L", scale |-> "1", unit |-> ""],
    [name |-> "CFG-SPIOUTPROT-UBX", key |-> 276430849, type |-> "L", scale |-> "1", unit |-> ""],
    [name |-> "CFG-SPIOUTPROT-NMEA", key |-> 276430850, type |-> "L", scale |-> "1", unit |-> ""],
    [name |-> "CFG-SPIOUTPROT-RTCM3X", key |-> 276430852, type |-> "L", scale |-> "1", unit |-> ""],
    [name |-> "CFG-TMODE-MODE", key |-> 537067521, type |-> "E1", scale |-> "1", unit |-> ""],
    [name |-> "CFG-TMODE-POS_TYPE", key |-> 537067522, type |-> "E1", scale |-> "1", unit |-> ""],
    [name |-> "CFG-TMODE-ECEF_X", key |-> 1073938435, type |-> "I4", scale |-> "1", unit |-> "cm"],
    [name |-> "CFG-TMODE-ECEF_Y", key |-> 1073938436, type |-> "I4", scale |-> "1", unit |-> "cm"],
    [name |-> "CFG-TMODE-ECEF_Z", key |-> 1073938437, type |-> "I4", scale |-> "1", unit |-> "cm"],
    [name |-> "CFG-TMODE-ECEF_X_HP", key |-> 537067526, type |-> "I1", scale |-> "0.1", unit |-> "mm"],
    [name |-> "CFG-TMODE-ECEF_Y_HP", key |-> 537067527, type |-> "I1", scale |-> "0.1", unit |-> "mm"],
    [name |-> "CFG-TMODE-ECEF_Z_HP", key |-> 537067528, type |-> "I1", scale |-> "0.1", unit |-> "mm"],
    [name |-> "CFG-TMODE-LAT", key |-> 1073938441, type |-> "I4", scale |-> "1e-07", unit |-> "deg"],
    [name |-> "CFG-TMODE-LON", key |-> 1073938442, type |-> "I4", scale |-> "1e-07", unit |-> "deg"],
    [name |-> "CFG-TMODE-HEIGHT", key |-> 1073938443, type |-> "I4", scale |-> "1", unit |-> "cm"],
    [name |-> "CFG-TMODE-LAT_HP", key |-> 537067532, type |-> "I1", scale |-> "1e-09", unit |-> "deg"],
    [name |-> "CFG-TMODE-LON_HP", key |-> 537067533, type |-> "I1", scale |-> "1e-09", unit |-> "deg"],
    [name |-> "CFG-TMODE-HEIGHT_HP", key |-> 537067534, type |-> "I1", scale |-> "0.1", unit |-> "mm"],
    [name |-> "CFG-TMODE-FIXED_POS_ACC", key |-> 1073938447, type |-> "U4", scale |-> "0.1", unit |-> "mm"],
    [name |-> "CFG-TMODE-SVIN_MIN_DUR", key |-> 1073938448, type |-> "U4", scale |-> "1", unit |-> "s"],
    [name |-> "CFG-TMODE-SVIN_ACC_LIMIT", key |-> 1073938449, type |-> "U4", scale |-> "0.1", unit |-> "mm"],
    [name |-> "CFG-TP-PULSE_DEF", key |-> 537198627, type |-> "E1", scale |-> "1", unit |-> ""],
    [name |-> "CFG-TP-PULSE_LENGTH_DEF", key |-> 537198640, type |-> "E1", scale |-> "1", unit |-> ""],
    [name |-> "CFG-TP-ANT_CABLEDELAY", key |-> 805634049, type |-> "I2", scale |-> "1e-09", unit |-> "s"],
    [name |-> "CFG-TP-PERIOD_TP1", key |-> 1074069506, type |-> "U4", scale |-> "1e-06", unit |-> "s"],
    [name |-> "CFG-TP-PERIOD_LOCK_TP1", key |-> 1074069507, type |-> "U4", scale |-> "1e-06", unit |-> "s"],
    [name |-> "CFG-TP-FREQ_TP1", key |-> 1074069540, type |-> "U4", scale |-> "1", unit |-> "Hz"],
    [name |-> "CFG-TP-FREQ_LOCK_TP1", key |-> 1074069541, type |-> "U4", scale |-> "1", unit |-> "Hz"],
    [name |-> "CFG-TP-LEN_TP1", key |-> 1074069508, type |-> "U4", scale |-> "1e-06", unit |-> "s"],
    [name |-> "CFG-TP-LEN_LOCK_TP1", key |-> 1074069509, type |-> "U4", scale |-> "1e-06", unit |-> "s"],
    [name |-> "CFG-TP-DUTY_TP1", key |-> 1342505002, type |-> "R8", scale |-> "1", unit |-> "%"],
    [name |-> "CFG-TP-DUTY_LOCK_TP1", key |-> 1342505003, type |-> "R8", scale |-> "1", unit |-> "%"],
    [name |-> "CFG-TP-USER_DELAY_TP1", key |-> 1074069510, type |-> "I4", scale |-> "1e-09", unit |-> "s"],
    [name |-> "CFG-TP-TP1_ENA", key |-> 268763143, type |-> "L", scale |-> "1", unit |-> ""],
    [name |-> "CFG-TP-SYNC_GNSS_TP1", key |-> 268763144, type |-> "L", scale |-> "1", unit |-> ""],
    [name |-> "CFG-TP-USE_LOCKED_TP1", key |-> 268763145, type |-> "L", scale |-> "1", unit |-> ""],
    [name |-> "CFG-TP-ALIGN_TO_TOW_TP1", key |-> 268763146, type |-> "L", scale |-> "1", unit |-> ""],
    [name |-> "CFG-TP-POL_TP1", key |-> 268763147, type |-> "L", scale |-> "1", unit |-> ""],
    [name |-> "CFG-TP-TIMEGRID_TP1", key |-> 537198604, type |-> "E1", scale |-> "1", unit |-> ""],
    [name |-> "CFG-TP-PERIOD_TP2", key |-> 1074069517, type |-> "U4", scale |-> "1e-06", unit |-> "s"],
    [name |-> "CFG-TP-PERIOD_LOCK_TP2", key |-> 1074069518, type |-> "U4", scale |-> "1e-06", unit |-> "s"],
    [name |-> "CFG-TP-FREQ_TP2", key |-> 1074069542, type |-> "U4", scale |-> "1", unit |-> "Hz"],
    [name |-> "CFG-TP-FREQ_LOCK_TP2", key |-> 1074069543, type |-> "U4", scale |-> "1", unit |-> "Hz"],
    [name |-> "CFG-TP-LEN_TP2", key |-> 1074069519, type |-> "U4", scale |-> "1e-06", unit |-> "s"],
    [name |-> "CFG-TP-LEN_LOCK_TP2", key |-> 1074069520, type |-> "U4", scale |-> "1e-06", unit |-> "s"],
    [name |-> "CFG-TP-DUTY_TP2", key |-> 1342505004, type |-> "R8", scale |-> "1", unit |-> "%"],
    [name |-> "CFG-TP-DUTY_LOCK_TP2", key |-> 1342505005, type |-> "R8", scale |-> "1", unit |-> "%"],
    [name |-> "CFG-TP-USER_DELAY_TP2", key |-> 1074069521, type |-> "I4", scale |-> "1e-09", unit |-> "s"],
    [name |-> "CFG-TP-TP2_ENA", key |-> 268763154, type |-> "L", scale |-> "1", unit |-> ""],
    [name |-> "CFG-TP-SYNC_GNSS_TP2", key |-> 268763155, type |-> "L", scale |-> "1", unit |-> ""],
    [name |-> "CFG-TP-USE_LOCKED_TP2", key |-> 268763156, type |-> "L", scale |-> "1", unit |-> ""],
    [name |-> "CFG-TP-ALIGN_TO_TOW_TP2", key |-> 268763157, type |-> "L", scale |-> "1", unit |-> ""],
    [name |-> "CFG-TP-POL_TP2", key |-> 268763158, type |-> "L", scale |-> "1", unit |-> ""],
    [name |-> "CFG-TP-TIMEGRID_TP2", key |-> 537198615, type |-> "E1", scale |-> "1", unit |-> ""],
    [name |-> "CFG-UART1-BAUDRATE", key |-> 1079115777, type |-> "U4", scale |-> "1", unit |-> ""],
    [name |-> "CFG-UART1-STOPBITS", key |-> 542244866, type |-> "E1", scale |-> "1", unit |-> ""],
    [name |-> "CFG-UART1-DATABITS", key |-> 542244867, type |-> "E1", scale |-> "1", unit |-> ""],
    [name |-> "CFG-UART1-PARITY", key |-> 542244868, type |-> "E1", scale |-> "1", unit |-> ""],
    [name |-> "CFG-UART1-ENABLED", key |-> 273809413, type |-> "L", scale |-> "1", unit |-> ""],
    [name |-> "CFG-UART1INPROT-UBX", key |-> 275972097, type |-> "L", scale |-> "1", unit |-> ""],
    [name |-> "CFG-UART1INPROT-NMEA", key |-> 275972098, type |-> "L", scale |-> "1", unit |-> ""],
    [name |-> "CFG-UART1INPROT-RTCM2X", key |-> 275972099, type |-> "L", scale |-> "1", unit |-> ""],
    [name |-> "CFG-UART1INPROT-RTCM3X", key |-> 275972100, type |-> "L", scale |-> "1", unit |-> ""],
    [name |-> "CFG-UART1OUTPROT-UBX", key |-> 276037633, type |-> "L", scale |-> "1", unit |-> ""],
    [name |-> "CFG-UART1OUTPROT-NMEA", key |-> 276037634, type |-> "L", scale |-> "1", unit |-> ""],
    [name |-> "CFG-UART1OUTPROT-RTCM3X", key |-> 276037636, type |-> "L", scale |-> "1", unit |-> ""],
    [name |-> "CFG-UART2-BAUDRATE", key |-> 1079181313, type |-> "U4", scale |-> "1", unit |-> ""],
    [name |-> "CFG-UART2-STOPBITS", key |-> 542310402, type |-> "E1", scale |-> "1", unit |-> ""],
    [name |-> "CFG-UART2-DATABITS", key |-> 542310403, type |-> "E1", scale |-> "'1'", unit |-> ""],
    [name |-> "CFG-UART2-PARITY", key |-> 542310404, type |-> "E1", scale |-> "'1'", unit |-> ""],
    [name |-> "CFG-UART2-ENABLED", key |-> 273874949, type |-> "L", scale |-> "'1'", unit |-> ""],
    [name |-> "CFG-UART2-REMAP", key |-> 273874950, type |-> "L", scale |-> "'1'", unit |-> ""],
    [name |-> "CFG-UART2INPROT-UBX", key |-> 276103169, type |-> "L", scale |-> "1", unit |-> ""],
    [name |-> "CFG-UART2INPROT-NMEA", key |-> 276103170, type |-> "L", scale |-> "1", unit |-> ""],
    [name |-> "CFG-UART2INPROT-RTCM2X", key |-> 276103171, type |-> "L", scale |-> "1", unit |-> ""],
    [name |-> "CFG-UART2INPROT-RTCM3X", key |-> 276103172, type |-> "L", scale |-> "1", unit |-> ""],
    [name |-> "CFG-UART2OUTPROT-UBX", key |-> 276168705, type |-> "L", scale |-> "1", unit |-> ""],
    [name |-> "CFG-UART2OUTPROT-NMEA", key |-> 276168706, type |-> "L", scale |-> "1", unit |-> ""],
    [name |-> "CFG-UART2OUTPROT-RTCM3X", key |-> 276168708, type |-> "L", scale |-> "1", unit |-> ""],
    [name |-> "CFG-USB-ENABLED", key |-> 275054593, type |-> "L", scale |-> "1", unit |-> ""],
    [name |-> "CFG-USB-SELFPOW", key |-> 275054594, type |-> "L", scale |-> "1", unit |-> ""],
    [name |-> "CFG-USB-VENDOR_ID", key |-> 811925514, type |-> "U2", scale |-> "1", unit |-> ""],
    [name |-> "CFG-USB-PRODUCT_ID", key |-> 811925515, type |-> "U2", scale |-> "1", unit |-> ""],
    [name |-> "CFG-USB-POWER", key |-> 811925516, type |-> "U2", scale |-> "1", unit |-> "mA"],
    [name |-> "CFG-USB-VENDOR_STR0", key |-> 1348796429, type |-> "X8", scale |-> "1", unit |-> ""],
    [name |-> "CFG-USB-VENDOR_STR1", key |-> 1348796430, type |-> "X8", scale |-> "1", unit |-> ""],
    [name |-> "CFG-USB-VENDOR_STR2", key |-> 1348796431, type |-> "X8", scale |-> "1", unit |-> ""],
    [name |-> "CFG-USB-VENDOR_STR3", key |-> 1348796432, type |-> "X8", scale |-> "1", unit |-> ""],
    [name |-> "CFG-USB-PRODUCT_STR0", key |-> 1348796433, type |-> "X8", scale |-> "1", unit |-> ""],
    [name |-> "CFG-USB-PRODUCT_STR1", key |-> 1348796434, type |-> "X8", scale |-> "1", unit |-> ""],
    [name |-> "CFG-USB-PRODUCT_STR2", key |-> 1348796435, type |-> "X8", scale |-> "1", unit |-> ""],
    [name |-> "CFG-USB-PRODUCT_STR3", key |-> 1348796436, type |-> "X8", scale |-> "1", unit |-> ""],
    [name |-> "CFG-USB-SERIAL_NO_STR0", key |-> 1348796437, type |-> "X8", scale |-> "1", unit |-> ""],
    [name |-> "CFG-USB-SERIAL_NO_STR1", key |-> 1348796438, type |-> "X8", scale |-> "1", unit |-> ""],
    [name |-> "CFG-USB-SERIAL_NO_STR2", key |-> 1348796439, type |-> "X8", scale |-> "1", unit |-> ""],
    [name |-> "CFG-USB-SERIAL_NO_STR3", key |-> 1348796440, type |-> "X8", scale |-> "1", unit |-> ""],
    [name |-> "CFG-USBINPROT-UBX", key |-> 276234241, type |-> "L", scale |-> "1", unit |-> ""],
    [name |-> "CFG-USBINPROT-NMEA", key |-> 276234242, type |-> "L", scale |-> "1", unit |-> ""],
    [name |-> "CFG-USBINPROT-RTCM2X", key |-> 276234243, type |-> "L", scale |-> "1", unit |-> ""],
    [name |-> "CFG-USBINPROT-RTCM3X", key |-> 276234244, type |-> "L", scale |-> "1", unit |-> ""],
    [name |-> "CFG-USBOUTPROT-UBX", key |-> 276299777, type |-> "L", scale |-> "1", unit |-> ""],
    [name |-> "CFG-USBOUTPROT-NMEA", key |-> 276299778, type |-> "L", scale |-> "1", unit |-> ""],
    [name |-> "CFG-USBOUTPROT-RTCM3X", key |-> 276299780, type |-> "L", scale |-> "1", unit |-> ""]
    >>

(***************************************************************************)
(* item_to_type: (size, pack format, flavor) of a configuration item, from *)
(* its value type or, for a type not in cfg_types, from bits 28..30 of its *)
(* key.                                                                    *)
(***************************************************************************)
cfg_types ==
    ("E1" :> <<1, "<B", "u">>)
    @@ ("E2" :> <<2, "<H", "u">>)
    @@ ("E4" :> <<4, "<L", "u">>)
    @@ ("I1" :> <<1, "<b", "i">>)
    @@ ("I2" :> <<2, "<h", "i">>)
    @@ ("I4" :> <<4, "<l", "i">>)
    @@ ("I8" :> <<8, "<q", "i">>)
    @@ ("L" :> <<1, "<B", "u">>)
    @@ ("R4" :> <<4, "<f", "f">>)
    @@ ("R8" :> <<2, "<d", "f">>)
    @@ ("U1" :> <<1, "<B", "u">>)
    @@ ("U2" :> <<2, "<H", "u">>)
    @@ ("U4" :> <<4, "<L", "u">>)
    @@ ("U8" :> <<8, "<Q", "u">>)
    @@ ("X1" :> <<1, "<B", "u">>)
    @@ ("X2" :> <<2, "<H", "u">>)
    @@ ("X4" :> <<4, "<L", "u">>)
    @@ ("X8" :> <<8, "<Q", "u">>)

key_map ==
    (0 :> <<1, "<B", "u">>)
    @@ (1 :> <<1, "<B", "u">>)
    @@ (2 :> <<1, "<B", "u">>)
    @@ (3 :> <<2, "<H", "u">>)
    @@ (4 :> <<4, "<L", "u">>)
    @@ (5 :> <<8, "<B", "u">>)
    @@ (6 :> <<1, "<B", "u">>)
    @@ (7 :> <<1, "<B", "u">>)

\* (key >> 28) & 0x07
key_size(key) == (key \div 268435456) % 8

item_to_type(item) ==
    IF item.type \in DOMAIN cfg_types
    THEN cfg_types[item.type]
    ELSE key_map[key_size(item.key)]

(* struct.calcsize of the pack formats of cfg_types and key_map *)
calcsize(frmat) ==
    CASE frmat \in {"<B", "<b"} -> 1
      [] frmat \in {"<H", "<h"} -> 2
      [] frmat \in {"<L", "<l", "<f"} -> 4
      [] frmat \in {"<Q", "<q", "<d"} -> 8

(***************************************************************************)
(* cfg_by_key: the first item of cfgs with the key.  When no item has it,  *)
(* the statement that builds the name of the fake item reads the name      *)
(* `ket`, which is bound nowhere: the call ends in NameError before an     *)
(* item is built.  fake_item is the item the statements after it describe. *)
(***************************************************************************)
NoItem == [name |-> "", key |-> 0, type |-> "", scale |-> "", unit |-> ""]

fake_type ==
    (0 :> "Z0") @@ (1 :> "L") @@ (2 :> "U1") @@ (3 :> "U2") @@ (4 :> "U4")
    @@ (5 :> "U8") @@ (6 :> "Z6") @@ (7 :> "Z7")

fake_item(key) ==
    [name |-> <<"CFG", (key \div 65536) % 256, key % 256>>, key |-> key,
     type |-> fake_type[key_size(key)], scale |-> "1", unit |-> "Unk"]

first_item(items, hits) == items[CHOOSE k \in hits : \A j \in hits : k <= j]

key_item(items, hits) ==
    IF hits # {} THEN [outcome |-> "return", item |-> first_item(items, hits)]
    ELSE [outcome |-> "raise", item |-> NoItem]

by_key(items, key) ==
    key_item(items, {k \in 1..Len(items) : items[k].key = key})

cfg_by_key(key) == by_key(cfgs, key)

(* cfg_by_name: the first item of cfgs with the name, or None *)
name_item(items, hits) ==
    IF hits # {} THEN [found |-> TRUE, item |-> first_item(items, hits)]
    ELSE [found |-> FALSE, item |-> NoItem]

by_name(items, name) ==
    name_item(items, {k \in 1..Len(items) : items[k].name = name})

cfg_by_name(name) == by_name(cfgs, name)

(***************************************************************************)
(* Bytes with a meaning to decode_msg (src/ubxtool.py, BASE state).        *)
(***************************************************************************)
SYNC1 == 181
SYNC2 == 98
DOLLAR == 36
LBRACE == 123
HASH == 35
RTCM3_LEADER == 211
LF == 10
CR == 13

Min(a, b) == IF a < b THEN a ELSE b

(* '%02x' % x : the two hex digits of a byte *)
Hex2(x) == <<x \div 16, x % 16>>

(* ''.join('{:02x} '.format(x) for x in m_payload), ','.join('%02x' % x ...):
   the digit pairs in payload order; the separators are constant *)
HexString(m_payload) == [k \in 1..Len(m_payload) |-> Hex2(m_payload[k])]

(***************************************************************************)
(* The values decode_msg returns as its second component.                  *)
(***************************************************************************)
\* the integer 0 of "return 1, 0" and "return 0, 0"
Empty == [kind |-> "empty"]
\* the accumulated comment string of an NMEA, JSON or comment line
Text(comment) == [kind |-> "text", text |-> comment]
\* s_payload as first assigned: the space-separated hex dump of the payload
HexDump(m_payload) == [kind |-> "hexdump", hex |-> HexString(m_payload)]
\* "%s, len %#x, raw %s" % (class_id_s(m_class, m_id), m_len, x_payload)
RawFallback(label, m_len, m_payload) ==
    [kind |-> "raw", label |-> label, len |-> m_len, hex |-> HexString(m_payload)]
\* {'type': name, 'msg': dec(self, m_payload)}
Decoded(name, msg) == [kind |-> "decoded", type |-> name, msg |-> msg]

(***************************************************************************)
(* checksum: both sums run unbounded and are masked once at the end.       *)
(* ck_loop runs the loop body over msg[lo..hi] in order, the first half of *)
(* the range and then the second.  The test between the halves is always  *)
(* true, the sums of bytes being never negative; it has the first half     *)
(* computed before the second is entered.                                  *)
(***************************************************************************)
RECURSIVE ck_loop(_, _, _, _, _)
ck_loop(msg, lo, hi, ck_a, ck_b) ==
    IF lo > hi THEN <<ck_a, ck_b>>
    ELSE IF lo = hi THEN <<ck_a + msg[lo], ck_b + (ck_a + msg[lo])>>
    ELSE LET mid == (lo + hi) \div 2
             r   == ck_loop(msg, lo, mid, ck_a, ck_b)
         IN  IF r[1] >= 0 /\ r[2] >= 0
             THEN ck_loop(msg, mid + 1, hi, r[1], r[2])
             ELSE r

\* a checksum that returns the first sum in the place of the second
checksum_mut(msg, m_len) ==
    LET r == ck_loop(msg, 1, Min(m_len, Len(msg)), 0, 0)
    IN  <<r[1] % 256, r[1] % 256>>

checksum(msg, m_len) ==
    LET r == ck_loop(msg, 1, Min(m_len, Len(msg)), 0, 0)
    IN  <<r[1] % 256, r[2] % 256>>

(***************************************************************************)
(* make_pkt: header, class, id, little-endian length, payload, checksum    *)
(* over class..payload.                                                    *)
(***************************************************************************)
\* a make_pkt that leaves the length bytes out of the checksum
make_pkt_mut(m_class, m_id, m_data) ==
    LET m_len == Len(m_data)
        msg   == <<m_class, m_id, m_len % 256, (m_len \div 256) % 256>> \o m_data
        chk   == checksum(<<m_class, m_id>> \o m_data, m_len + 2)
    IN  <<SYNC1, SYNC2>> \o SubSeq(msg, 1, m_len + 4) \o <<chk[1], chk[2]>>

make_pkt(m_class, m_id, m_data) ==
    LET m_len == Len(m_data)
        msg   == <<m_class, m_id, m_len % 256, (m_len \div 256) % 256>> \o m_data
        chk   == checksum(msg, m_len + 4)
    IN  <<SYNC1, SYNC2>> \o SubSeq(msg, 1, m_len + 4) \o <<chk[1], chk[2]>>

(***************************************************************************)
(* class_id_s: the label "Class: <str>(<hex>) ID: <str>(<hex>)", with the  *)
(* bare number where a class or an id has no entry.  s_class / s_id are    *)
(* "" where the source prints the number alone.                            *)
(***************************************************************************)
class_id_s(m_class, m_id) ==
    IF m_class \notin DOMAIN classes
    THEN [s_class |-> "", m_class |-> m_class, s_id |-> "", m_id |-> m_id]
    ELSE LET this == classes[m_class]
             s_class == IF "str" \in DOMAIN this THEN this.str ELSE ""
             s_id == IF /\ "ids" \in DOMAIN this
                        /\ m_id \in DOMAIN this.ids
                        /\ "str" \in DOMAIN this.ids[m_id]
                     THEN this.ids[m_id].str ELSE ""
         IN  [s_class |-> s_class, m_class |-> m_class, s_id |-> s_id, m_id |-> m_id]

(***************************************************************************)
(* Payload decoders.  A decoder ends in one of three ways: it returns a    *)
(* message, struct.unpack_from raises struct.error because the buffer is   *)
(* shorter than offset + size, or it never leaves a loop.  A returned      *)
(* message is the poll-request string, the bad-length string with the      *)
(* length it prints, or the fields unpacked (kept as the bytes unpacked).  *)
(***************************************************************************)
PollRequest(text)    == [kind |-> "poll", text |-> text, len |-> 0, u |-> <<>>]
BadLength(text, n)   == [kind |-> "badlen", text |-> text, len |-> n, u |-> <<>>]
Fields(u)            == [kind |-> "fields", text |-> "", len |-> Len(u), u |-> u]

(* min_protver is the floor a decoder put under opts['protver'] before it
   ended ("if 27 > opts['protver']: opts['protver'] = 27"), 0 when it put none *)
DecReturn(msg) == [outcome |-> "return", msg |-> msg, min_protver |-> 0]
DecRaise       == [outcome |-> "raise", msg |-> Fields(<<>>), min_protver |-> 0]
DecHang        == [outcome |-> "hang", msg |-> Fields(<<>>), min_protver |-> 0]

(* struct.unpack_from(fmt, buf, offset), fmt of `size` bytes: raises unless
   offset + size <= len(buf) *)
can_unpack(size, buf, offset) == offset + size <= Len(buf)
unpack_from(size, buf, offset) == SubSeq(buf, offset + 1, offset + size)

(* UBX-ACK-ACK / UBX-ACK-NAK, '<BB' *)
ack_ack(buf) ==
    LET m_len == Len(buf)
    IN  IF 2 > m_len THEN DecReturn(BadLength("Bad Length", m_len))
        ELSE DecReturn(Fields(unpack_from(2, buf, 0)))

(* UBX-NAV-EOE, '<L' *)
nav_eoe(buf) ==
    LET m_len == Len(buf)
    IN  IF 4 > m_len THEN DecReturn(BadLength(" Bad Length", m_len))
        ELSE DecReturn(Fields(unpack_from(4, buf, 0)))

(* UBX-NAV-GEOFENCE, '<LBBBB' then '<BB' blocks: the loop "while 1 < m_len"
   changes neither m_len nor i, so with 2 or more bytes after the header it
   never exits (s grows until the process runs out of memory) *)
nav_geofence(buf) ==
    LET m_len == Len(buf)
    IN  IF 0 = m_len THEN DecReturn(PollRequest(" Poll request"))
        ELSE IF 8 > m_len THEN DecReturn(BadLength(" Bad Length", m_len))
        ELSE IF 1 < m_len - 8 THEN DecHang
        ELSE DecReturn(Fields(unpack_from(8, buf, 0)))

(* UBX-NAV-HPPOSECEF, '<BBBBLlllbbbbL' (28 bytes); the length test reads
   "28 < m_len" *)
nav_hpposecef(buf) ==
    LET m_len == Len(buf)
    IN  IF 0 = m_len THEN DecReturn(PollRequest(" Poll request"))
        ELSE IF 28 < m_len THEN DecReturn(BadLength(" Bad Length", m_len))
        ELSE IF ~can_unpack(28, buf, 0) THEN DecRaise
        ELSE DecReturn(Fields(unpack_from(28, buf, 0)))

\* a nav_posecef without the test for the empty payload
nav_posecef_mut(buf) ==
    LET m_len == Len(buf)
    IN  IF 20 > m_len THEN DecReturn(BadLength(" Bad Length", m_len))
        ELSE DecReturn(Fields(unpack_from(20, buf, 0)))

(* UBX-NAV-POSECEF, '<LlllL' (20 bytes) *)
nav_posecef(buf) ==
    LET m_len == Len(buf)
    IN  IF 0 = m_len THEN DecReturn(PollRequest(" Poll request"))
        ELSE IF 20 > m_len THEN DecReturn(BadLength(" Bad Length", m_len))
        ELSE DecReturn(Fields(unpack_from(20, buf, 0)))

(* UBX-NAV-SIG, '<LBBH' (8 bytes) then numSigs blocks '<BBBBhBBBBHL' (16
   bytes) at 8 + i * 16; numSigs is the sixth byte of the payload *)
nav_sig(buf) ==
    LET m_len == Len(buf)
    IN  IF 0 = m_len THEN DecReturn(PollRequest(" Poll request"))
        ELSE IF 8 > m_len THEN DecReturn(BadLength(" Bad Length", m_len))
        ELSE LET numSigs == unpack_from(8, buf, 0)[6]
             IN  IF \E i \in 0..(numSigs - 1) : ~can_unpack(16, buf, 8 + (i * 16))
                 THEN DecRaise
                 ELSE DecReturn(Fields(unpack_from(8 + (16 * numSigs), buf, 0)))

(* UBX-CFG-CFG, '<LLL' (12 bytes) or '<LLLB' (13 bytes) *)
cfg_cfg(buf) ==
    LET m_len == Len(buf)
    IN  IF 12 > m_len THEN DecReturn(BadLength("Bad Length", m_len))
        ELSE IF 12 = m_len THEN DecReturn(Fields(unpack_from(12, buf, 0)))
        ELSE DecReturn(Fields(unpack_from(13, buf, 0)))

(* UBX-CFG-MSG: '<BB' rate request, '<BBB' rate set, '<BBBBBBBB' rates *)
cfg_msg(buf) ==
    LET m_len == Len(buf)
    IN  IF 2 = m_len THEN DecReturn(Fields(unpack_from(2, buf, 0)))
        ELSE IF 3 = m_len THEN DecReturn(Fields(unpack_from(3, buf, 0)))
        ELSE IF 8 # m_len THEN DecReturn(BadLength("Bad Length", m_len))
        ELSE DecReturn(Fields(unpack_from(8, buf, 0)))

(* UBX-CFG-RST, '<HBB' *)
cfg_rst(buf) ==
    LET m_len == Len(buf)
    IN  IF 4 > m_len THEN DecReturn(BadLength("Bad Length", m_len))
        ELSE DecReturn(Fields(unpack_from(4, buf, 0)))

\* struct.unpack_from('<L', buf, offset)[0]
u32(buf, offset) ==
    buf[offset + 1] + (256 * buf[offset + 2]) + (65536 * buf[offset + 3])
        + (16777216 * buf[offset + 4])

(* the loop of cfg_valdel and of the poll branch of cfg_valget: one key at
   4 + i * 4 per round, looked up with cfg_by_key *)
RECURSIVE key_loop(_, _, _)
key_loop(buf, m_len, i) ==
    IF ~(0 < m_len) THEN DecReturn(Fields(unpack_from(4 + (i * 4), buf, 0)))
    ELSE IF ~can_unpack(4, buf, 4 + (i * 4)) THEN DecRaise
    ELSE IF cfg_by_key(u32(buf, 4 + (i * 4))).outcome = "raise" THEN DecRaise
    ELSE key_loop(buf, m_len - 4, i + 1)

(* the loop of cfg_valset and of the answer branch of cfg_valget: a key at i,
   then its value, unpacked with the item's pack format; i and m_len move by
   the item's size *)
RECURSIVE val_loop(_, _, _)
\* size, frmat, flavor = cfg_type; the value at i + 4; the next round
val_value(buf, m_len, i, cfg_type) ==
    IF ~can_unpack(calcsize(cfg_type[2]), buf, i + 4) THEN DecRaise
    ELSE val_loop(buf, (m_len - 4) - cfg_type[1], (i + 4) + cfg_type[1])

\* item = gps_model.cfg_by_key(u[0]); cfg_type = item_to_type(item)
val_item(buf, m_len, i, c) ==
    IF c.outcome = "raise" THEN DecRaise
    ELSE val_value(buf, m_len, i, item_to_type(c.item))

val_loop(buf, m_len, i) ==
    IF ~(0 < m_len) THEN DecReturn(Fields(unpack_from(i, buf, 0)))
    ELSE IF ~can_unpack(4, buf, i) THEN DecRaise
    ELSE val_item(buf, m_len, i, cfg_by_key(u32(buf, i)))

(* UBX-CFG-VALDEL, '<BBBB' then keys *)
cfg_valdel(buf) ==
    LET m_len == Len(buf)
    IN  IF 4 > m_len THEN DecReturn(BadLength("Bad Length", m_len))
        ELSE key_loop(buf, m_len - 4, 0)

\* a cfg_valget that raises opts['protver'] for a poll as well
cfg_valget_mut(buf) ==
    LET m_len == Len(buf)
    IN  IF 4 > m_len THEN DecReturn(BadLength("Bad Length", m_len))
        ELSE IF 0 = unpack_from(4, buf, 0)[1]
        THEN [key_loop(buf, m_len - 4, 0) EXCEPT !.min_protver = 27]
        ELSE [val_loop(buf, (m_len - 4) - 4, 4) EXCEPT !.min_protver = 27]

(* UBX-CFG-VALGET, '<BBBB': version 0 is a poll and lists keys; any other
   version is the answer: opts['protver'] is raised to 27 if it is lower,
   m_len is lowered by 4 a second time, then key/value pairs follow *)
cfg_valget(buf) ==
    LET m_len == Len(buf)
    IN  IF 4 > m_len THEN DecReturn(BadLength("Bad Length", m_len))
        ELSE IF 0 = unpack_from(4, buf, 0)[1] THEN key_loop(buf, m_len - 4, 0)
        ELSE [val_loop(buf, (m_len - 4) - 4, 4) EXCEPT !.min_protver = 27]

(* UBX-CFG-VALSET, '<BBBB' then key/value pairs *)
cfg_valset(buf) ==
    LET m_len == Len(buf)
    IN  IF 4 > m_len THEN DecReturn(BadLength("Bad Length", m_len))
        ELSE val_loop(buf, m_len - 4, 4)

(* the integers struct.unpack_from reads: 'B' and 'b' one byte, 'H' two,
   'L' and 'l' four, little-endian, the lower-case ones signed *)
u8(buf, offset) == buf[offset + 1]
s8(buf, offset) ==
    IF buf[offset + 1] >= 128 THEN buf[offset + 1] - 256 ELSE buf[offset + 1]
u16(buf, offset) == buf[offset + 1] + (256 * buf[offset + 2])
s32(buf, offset) ==
    buf[offset + 1] + (256 * buf[offset + 2]) + (65536 * buf[offset + 3])
        + (16777216 * s8(buf, offset + 3))

(* round((a + b * (1 / per)) * unit, digits), a and b integers and digits
   enough to hold 1 / per of the unit: the sum is a whole number of
   unit / per and rounding leaves it as it is.  The value is kept as the
   whole units int and the frac parts of per, 0 <= frac < per. *)
scaled(a, b, per) == [int |-> a + (b \div per), frac |-> b % per, per |-> per]

\* hpposllh_data as the decoder fills it from u; u is kept with it
hpposllh_data(buf) ==
    [kind |-> "fields", text |-> "", len |-> 36, u |-> unpack_from(36, buf, 0),
     version |-> u8(buf, 0), iTow |-> u32(buf, 4),
     lon |-> s32(buf, 8), lat |-> s32(buf, 12),
     height |-> s32(buf, 16), hMSL |-> s32(buf, 20),
     lonHp |-> s8(buf, 24), latHp |-> s8(buf, 25),
     heightHp |-> s8(buf, 26), hMSLHp |-> s8(buf, 27),
     hAcc |-> u32(buf, 28), vAcc |-> u32(buf, 32),
     prec_lon |-> scaled(s32(buf, 8), s8(buf, 24), 100),
     prec_lat |-> scaled(s32(buf, 12), s8(buf, 25), 100),
     prec_height |-> scaled(s32(buf, 16), s8(buf, 26), 10),
     prec_hMSL |-> scaled(s32(buf, 20), s8(buf, 27), 10)]

\* a nav_hpposllh that reads lonHp and latHp as unsigned bytes
nav_hpposllh_mut(buf) ==
    LET m_len == Len(buf)
    IN  IF 0 = m_len THEN DecReturn(PollRequest(" Poll request"))
        ELSE IF 36 > m_len THEN DecReturn(BadLength(" Bad Length", m_len))
        ELSE DecReturn([hpposllh_data(buf) EXCEPT
                            !.lonHp = u8(buf, 24), !.latHp = u8(buf, 25),
                            !.prec_lon = scaled(s32(buf, 8), u8(buf, 24), 100),
                            !.prec_lat = scaled(s32(buf, 12), u8(buf, 25), 100)])

(* UBX-NAV-HPPOSLLH, '<BBBBLllllbbbbLL' (36 bytes): the fields, and the
   positions scaled, lon and lat with lonHp and latHp (1e-2 of their unit)
   rounded to 9 digits, height and hMSL with heightHp and hMSLHp (1e-1 of
   their unit) rounded to 4 *)
nav_hpposllh(buf) ==
    LET m_len == Len(buf)
    IN  IF 0 = m_len THEN DecReturn(PollRequest(" Poll request"))
        ELSE IF 36 > m_len THEN DecReturn(BadLength(" Bad Length", m_len))
        ELSE DecReturn(hpposllh_data(buf))

\* flags & int('...', 2)
bit(flags, mask) == (flags \div mask) % 2 = 1

(* pvt_data as the decoder fills it; carrSoln is assigned twice, from bit 6
   and then from bit 7 of flags, and keeps the second value.  False is
   "False". *)
pvt_data(buf) ==
    [kind |-> "fields", text |-> "", len |-> 84, u |-> unpack_from(84, buf, 0),
     iTow |-> u32(buf, 0), year |-> u16(buf, 4), month |-> u8(buf, 6),
     day |-> u8(buf, 7), hour |-> u8(buf, 8), minute |-> u8(buf, 9),
     second |-> u8(buf, 10), valid |-> u8(buf, 11), nano |-> s32(buf, 16),
     fixType |-> u8(buf, 20), flags |-> u8(buf, 21), flags2 |-> u8(buf, 22),
     numSV |-> u8(buf, 23), pDOP |-> u16(buf, 76),
     gnssFixOK |-> bit(u8(buf, 21), 1), diffSoln |-> bit(u8(buf, 21), 2),
     carrSoln |-> IF bit(u8(buf, 21), 128) THEN "Fixed" ELSE "False",
     version15 |-> 92 <= Len(buf)]

(* UBX-NAV-PVT, '<LHBBBBBBLlBBBBllllLLlllllLLHHHH' (84 bytes), and with 92
   bytes or more '<lhH' at 81 *)
nav_pvt(buf) ==
    LET m_len == Len(buf)
    IN  IF 0 = m_len THEN DecReturn(PollRequest(" Poll request"))
        ELSE IF 84 > m_len THEN DecReturn(BadLength(" Bad Length", m_len))
        ELSE DecReturn(pvt_data(buf))

(* dec(self, m_payload) for the decoder methods modelled *)
dec(name, m_payload) ==
    CASE name = "ack_ack"       -> ack_ack(m_payload)
      [] name = "cfg_cfg"       -> cfg_cfg(m_payload)
      [] name = "cfg_msg"       -> cfg_msg(m_payload)
      [] name = "cfg_rst"       -> cfg_rst(m_payload)
      [] name = "cfg_valdel"    -> cfg_valdel(m_payload)
      [] name = "cfg_valget"    -> cfg_valget(m_payload)
      [] name = "cfg_valset"    -> cfg_valset(m_payload)
      [] name = "nav_hpposllh"  -> nav_hpposllh(m_payload)
      [] name = "nav_eoe"       -> nav_eoe(m_payload)
      [] name = "nav_geofence"  -> nav_geofence(m_payload)
      [] name = "nav_hpposecef" -> nav_hpposecef(m_payload)
      [] name = "nav_posecef"   -> nav_posecef(m_payload)
      [] name = "nav_pvt"       -> nav_pvt(m_payload)
      [] name = "nav_sig"       -> nav_sig(m_payload)

(***************************************************************************)
(* decode_msg: the frame state machine.                                    *)
(*                                                                         *)
(* The locals of one call are the record st.  A step of the for loop is    *)
(* Step(st, c, consumed), with consumed already counting this_byte; it     *)
(* either continues with new locals or ends the call.  A call ends by a    *)
(* return, by an exception of the payload decoder, or never (the decoder   *)
(* does not come back).  stderr counts the "ERROR checksum failed" lines   *)
(* the call wrote.                                                         *)
(***************************************************************************)
Locals0 ==
    [state |-> "BASE", comment |-> <<>>, m_class |-> 0, m_id |-> 0, m_len |-> 0,
     m_raw |-> <<>>, m_payload |-> <<>>, m_ck_a |-> 0, m_ck_b |-> 0, type |-> -1]

Continue(st) ==
    [done |-> FALSE, st |-> st, outcome |-> "continue", consumed |-> 0,
     data |-> Empty, stderr |-> 0, min_protver |-> 0]
Return(st, consumed, data, stderr) ==
    [done |-> TRUE, st |-> st, outcome |-> "return", consumed |-> consumed,
     data |-> data, stderr |-> stderr, min_protver |-> 0]
NoReturn(st, outcome, stderr) ==
    [done |-> TRUE, st |-> st, outcome |-> outcome, consumed |-> 0,
     data |-> Empty, stderr |-> stderr, min_protver |-> 0]

(* the lookup after the checksum test: classes, 'ids', m_id, 'dec' *)
Dispatch(st, consumed, stderr) ==
    LET s_payload == HexDump(st.m_payload)
    IN  IF st.m_class \in DOMAIN classes
             /\ "ids" \in DOMAIN classes[st.m_class]
             /\ st.m_id \in DOMAIN classes[st.m_class].ids
        THEN LET entry == classes[st.m_class].ids[st.m_id]
             IN  IF "dec" \in DOMAIN entry
                 THEN LET d == dec(entry.dec, st.m_payload)
                          r == IF d.outcome = "return"
                               THEN Return(st, consumed,
                                           Decoded(entry.name, d.msg), stderr)
                               ELSE NoReturn(st, d.outcome, stderr)
                      IN  [r EXCEPT !.min_protver = d.min_protver]
                 ELSE Return(st, consumed,
                             RawFallback(class_id_s(st.m_class, st.m_id),
                                         st.m_len, st.m_payload),
                             stderr)
        ELSE Return(st, consumed, s_payload, stderr)

\* a BASE state that drops CR and LF like any other byte
Base_mut(st, c) ==
    LET fresh == [st EXCEPT !.comment = <<>>, !.m_class = 0, !.m_id = 0, !.m_len = 0,
                            !.m_raw = <<>>, !.m_payload = <<>>,
                            !.m_ck_a = 0, !.m_ck_b = 0]
    IN  IF c = SYNC1 THEN Continue([fresh EXCEPT !.state = "HEADER1"])
        ELSE IF c = DOLLAR
        THEN Continue([fresh EXCEPT !.state = "NMEA", !.comment = <<DOLLAR>>])
        ELSE IF c = LBRACE
        THEN Continue([fresh EXCEPT !.state = "JSON", !.comment = <<LBRACE>>])
        ELSE IF c = HASH
        THEN Continue([fresh EXCEPT !.state = "COMMENT", !.comment = <<HASH>>])
        ELSE IF c = RTCM3_LEADER
        THEN Continue([fresh EXCEPT !.state = "RTCM3_1", !.comment = <<HASH>>])
        ELSE Continue(fresh)

(* 'BASE' == state *)
Base(st, c) ==
    LET fresh == [st EXCEPT !.comment = <<>>, !.m_class = 0, !.m_id = 0, !.m_len = 0,
                            !.m_raw = <<>>, !.m_payload = <<>>,
                            !.m_ck_a = 0, !.m_ck_b = 0]
        s1 == IF c = SYNC1 THEN [fresh EXCEPT !.state = "HEADER1"] ELSE fresh
        s2 == IF c = DOLLAR
              THEN [s1 EXCEPT !.state = "NMEA", !.comment = <<DOLLAR>>] ELSE s1
    IN  IF c = LBRACE
        THEN Continue([s2 EXCEPT !.state = "JSON", !.comment = <<LBRACE>>])
        ELSE IF c = HASH
        THEN Continue([s2 EXCEPT !.state = "COMMENT", !.comment = <<HASH>>])
        ELSE IF c = RTCM3_LEADER
        THEN Continue([s2 EXCEPT !.state = "RTCM3_1", !.comment = <<HASH>>])
        ELSE IF c = LF \/ c = CR
        THEN Return(s2, 1, Empty, 0)
        ELSE Continue(s2)

\* a line decoder that keeps the terminator in the text
TextLine_mut(st, c, consumed) ==
    IF c = LF \/ c = CR
    THEN Return(st, consumed, Text(Append(st.comment, c)), 0)
    ELSE Continue([st EXCEPT !.comment = Append(st.comment, c)])

(* state in ('COMMENT', 'JSON'), and 'NMEA' == state: the same but for what
   is printed *)
TextLine(st, c, consumed) ==
    IF c = LF \/ c = CR
    THEN Return(st, consumed, Text(st.comment), 0)
    ELSE Continue([st EXCEPT !.comment = Append(st.comment, c)])

\* a state after the leader that takes any byte as the high part of the length
Rtcm3_1_mut(st, c) ==
    Continue([st EXCEPT !.m_len = (c % 4) * 256, !.state = "RTCM3_2",
                        !.m_raw = Append(st.m_raw, c)])

(* 'RTCM3_1' == state: 0 != (c & 0xfc) is c >= 4 for a byte *)
Rtcm3_1(st, c) ==
    IF c \div 4 # 0
    THEN Continue([st EXCEPT !.state = "BASE"])
    ELSE Continue([st EXCEPT !.m_len = c * 256, !.state = "RTCM3_2",
                             !.m_raw = Append(st.m_raw, c)])

(* 'RTCM3_2' == state: m_len |= 0xff & c adds c, the low byte being 0 *)
Rtcm3_2(st, c) ==
    Continue([st EXCEPT !.m_len = (st.m_len + c) + 3, !.state = "RTCM3_PAYLOAD",
                        !.m_raw = Append(st.m_raw, c)])

(* 'RTCM3_PAYLOAD' == state: at the last byte the type is computed and the
   state set to BASE; the loop continues *)
Rtcm3Payload(st, c) ==
    LET m_payload == Append(st.m_payload, c)
        s1 == [st EXCEPT !.m_len = st.m_len - 1, !.m_raw = Append(st.m_raw, c),
                         !.m_payload = m_payload]
    IN  IF 0 = s1.m_len
        THEN Continue([s1 EXCEPT !.state = "BASE",
                                 !.type = (m_payload[1] * 16) + (m_payload[2] \div 16)])
        ELSE Continue(s1)

\* a length state that waits for payload bytes whatever the length
Len1_mut(st, c) ==
    Continue([st EXCEPT !.m_raw = Append(st.m_raw, c),
                        !.m_len = st.m_len + (256 * c), !.state = "PAYLOAD"])

(* 'LEN1' == state *)
Len1(st, c) ==
    LET m_len == st.m_len + (256 * c)
    IN  Continue([st EXCEPT !.m_raw = Append(st.m_raw, c), !.m_len = m_len,
                            !.state = IF 0 = m_len THEN "CSUM1" ELSE "PAYLOAD"])

\* a payload state that ends the call at a CR or LF
Payload_mut(st, c) ==
    LET m_payload == Append(st.m_payload, c)
    IN  IF c = LF \/ c = CR
        THEN Return(st, 1, Empty, 0)
        ELSE Continue([st EXCEPT !.m_raw = Append(st.m_raw, c),
                                 !.m_payload = m_payload,
                                 !.state = IF Len(m_payload) = st.m_len
                                           THEN "CSUM1" ELSE "PAYLOAD"])

(* 'PAYLOAD' == state *)
Payload(st, c) ==
    LET m_payload == Append(st.m_payload, c)
    IN  Continue([st EXCEPT !.m_raw = Append(st.m_raw, c), !.m_payload = m_payload,
                            !.state = IF Len(m_payload) = st.m_len
                                      THEN "CSUM1" ELSE "PAYLOAD"])

\* a decoder that drops a frame whose checksum is wrong
Csum2_mut(st, c, consumed) ==
    LET s1  == [st EXCEPT !.state = "BASE", !.m_ck_b = c]
        chk == checksum(s1.m_raw, Len(s1.m_raw))
    IN  IF chk[1] # s1.m_ck_a \/ chk[2] # s1.m_ck_b
        THEN Return(s1, consumed, Empty, 1)
        ELSE Dispatch(s1, consumed, 0)

(* 'CSUM2' == state: the checksum test writes to stderr and goes on *)
Csum2(st, c, consumed) ==
    LET s1  == [st EXCEPT !.state = "BASE", !.m_ck_b = c]
        chk == checksum(s1.m_raw, Len(s1.m_raw))
        stderr == IF chk[1] # s1.m_ck_a \/ chk[2] # s1.m_ck_b THEN 1 ELSE 0
    IN  Dispatch(s1, consumed, stderr)

Step(st, c, consumed) ==
    IF st.state = "BASE" THEN Base(st, c)
    ELSE IF st.state \in {"COMMENT", "JSON"} THEN TextLine(st, c, consumed)
    ELSE IF st.state = "NMEA" THEN TextLine(st, c, consumed)
    ELSE IF st.state = "RTCM3_1" THEN Rtcm3_1(st, c)
    ELSE IF st.state = "RTCM3_2" THEN Rtcm3_2(st, c)
    ELSE IF st.state = "RTCM3_PAYLOAD" THEN Rtcm3Payload(st, c)
    ELSE IF c = SYNC2 /\ st.state = "HEADER1"
    THEN Continue([st EXCEPT !.state = "HEADER2"])
    ELSE IF st.state = "HEADER2"
    THEN Continue([st EXCEPT !.state = "CLASS", !.m_class = c,
                             !.m_raw = Append(st.m_raw, c)])
    ELSE IF st.state = "CLASS"
    THEN Continue([st EXCEPT !.state = "ID", !.m_id = c,
                             !.m_raw = Append(st.m_raw, c)])
    ELSE IF st.state = "ID"
    THEN Continue([st EXCEPT !.state = "LEN1", !.m_len = c,
                             !.m_raw = Append(st.m_raw, c)])
    ELSE IF st.state = "LEN1" THEN Len1(st, c)
    ELSE IF st.state = "PAYLOAD" THEN Payload(st, c)
    ELSE IF st.state = "CSUM1"
    THEN Continue([st EXCEPT !.state = "CSUM2", !.m_ck_a = c])
    ELSE IF st.state = "CSUM2" THEN Csum2(st, c, consumed)
    ELSE Continue([st EXCEPT !.state = "BASE"])   \* give up

(* the for loop over the buffer; falling out of it is "return 0, 0".
   ScanRange runs the loop body over out[lo..hi] in order, the first half
   of the range and, unless the call ended there, the second; a range of
   one byte is one round of the loop. *)
RECURSIVE ScanRange(_, _, _, _)
ScanRange(out, lo, hi, st) ==
    IF lo > hi THEN Continue(st)
    ELSE IF lo = hi THEN Step(st, out[lo], lo)
    ELSE LET mid == (lo + hi) \div 2
             r   == ScanRange(out, lo, mid, st)
         IN  IF r.done THEN r ELSE ScanRange(out, mid + 1, hi, r.st)

ScanEnd(r) == IF r.done THEN r ELSE Return(r.st, 0, Empty, 0)

Scan(out, consumed, st) == ScanEnd(ScanRange(out, consumed + 1, Len(out), st))

(* the state each byte of the buffer was taken in, for the bytes the for
   loop took before the call ended *)
RECURSIVE ModesRange(_, _, _, _)
ModesRange(out, lo, hi, st) ==
    IF lo > hi THEN [modes |-> <<>>, r |-> Continue(st)]
    ELSE IF lo = hi THEN [modes |-> <<st.state>>, r |-> Step(st, out[lo], lo)]
    ELSE LET mid == (lo + hi) \div 2
             a   == ModesRange(out, lo, mid, st)
         IN  IF a.r.done THEN a
             ELSE LET b == ModesRange(out, mid + 1, hi, a.r.st)
                  IN  [modes |-> a.modes \o b.modes, r |-> b.r]

ScanModes(out, consumed, st) == ModesRange(out, consumed + 1, Len(out), st).modes

\* a decoder that returns the unfinished line when the buffer runs out
decode_msg_partial(out) ==
    LET r == Scan(out, 0, Locals0)
    IN  IF r.outcome = "return" /\ r.consumed = 0 /\ r.st.comment # <<>>
        THEN [r EXCEPT !.data = Text(r.st.comment)] ELSE r

\* a decoder that reports the bytes scanned when the buffer runs out
decode_msg_mut(out) ==
    LET r == Scan(out, 0, Locals0)
    IN  IF r.outcome = "return" /\ r.consumed = 0
        THEN [r EXCEPT !.consumed = Len(out)] ELSE r

decode_msg(out) == Scan(out, 0, Locals0)

(***************************************************************************)
(* The sender.  opts['read_only'] and opts['verbosity'] keep the values    *)
(* the opts dictionary is built with.  gps_send builds the packet;         *)
(* gps_send_raw writes it to the transport and, the verbosity being above  *)
(* VERB_QUIET, decodes what it wrote with decode_msg.                      *)
(***************************************************************************)
VERB_QUIET == 0
VERB_NONE == 1
read_only == FALSE
verbosity == VERB_NONE

NoEcho == Return(Locals0, 0, Empty, 0)

gps_send_raw(m_all) ==
    IF ~read_only
    THEN [written |-> <<m_all>>,
          echo |-> IF VERB_QUIET < verbosity THEN decode_msg(m_all) ELSE NoEcho]
    ELSE [written |-> <<>>, echo |-> NoEcho]

gps_send(m_class, m_id, m_data) == gps_send_raw(make_pkt(m_class, m_id, m_data))

\* a send_able_binary that sends UBX-NAV-EOE above protocol version 18 only
send_able_binary_mut(able, pv) ==
    LET rate   == IF able THEN 1 ELSE 0
        rate_s == IF rate # 0 THEN 10 ELSE 0
    IN  <<<<1, 4, rate>>>>
        \o (IF 15 > pv THEN <<<<1, 6, rate>>>> ELSE <<<<1, 7, rate>>>>)
        \o <<<<1, 32, rate>>>>
        \o (IF 27 > pv THEN <<<<1, 50, rate_s>>>> ELSE <<>>)
        \o (IF 15 > pv
            THEN <<<<1, 48, rate_s>>, <<1, 53, 0>>>>
            ELSE <<<<1, 53, rate_s>>>>
                 \o (IF 27 > pv THEN <<<<1, 48, 0>>>> ELSE <<>>))
        \o (IF 18 < pv THEN <<<<1, 97, rate>>>> ELSE <<>>)

(* send_able_binary: the payloads (class, id, rate) of the UBX-CFG-MSG
   packets it sends, in order, for the protocol version in opts['protver'] *)
send_able_binary(able, pv) ==
    LET rate   == IF able THEN 1 ELSE 0
        rate_s == IF rate # 0 THEN 10 ELSE 0
    IN  <<<<1, 4, rate>>>>
        \o (IF 15 > pv THEN <<<<1, 6, rate>>>> ELSE <<<<1, 7, rate>>>>)
        \o <<<<1, 32, rate>>>>
        \o (IF 27 > pv THEN <<<<1, 50, rate_s>>>> ELSE <<>>)
        \o (IF 15 > pv
            THEN <<<<1, 48, rate_s>>, <<1, 53, 0>>>>
            ELSE <<<<1, 53, rate_s>>>>
                 \o (IF 27 > pv THEN <<<<1, 48, 0>>>> ELSE <<>>))
        \o (IF 18 <= pv THEN <<<<1, 97, rate>>>> ELSE <<>>)

(* struct.pack_into(frmat, kv_data, 4, val1) for the integer formats: the
   value must fit the format and the buffer must hold it; the bytes are the
   value little-endian *)
RECURSIVE pow256(_)
pow256(n) == IF n = 0 THEN 1 ELSE 256 * pow256(n - 1)

fits(frmat, val) ==
    CASE frmat = "<B" -> 0 <= val /\ val <= 255
      [] frmat = "<b" -> -128 <= val /\ val <= 127
      [] frmat = "<H" -> 0 <= val /\ val <= 65535
      [] frmat = "<h" -> -32768 <= val /\ val <= 32767
      [] frmat = "<l" -> -2147483647 - 1 <= val /\ val <= 2147483647
      [] frmat \in {"<L", "<Q"} -> 0 <= val
      [] frmat \in {"<q", "<f", "<d"} -> TRUE

can_pack(frmat, size, val) == 4 + calcsize(frmat) <= size /\ fits(frmat, val)

\* the bytes of a value that is not negative
pack(frmat, val) ==
    [k \in 1..calcsize(frmat) |->
        IF k <= 3 THEN (val \div pow256(k - 1)) % 256
        ELSE IF k = 4 THEN (val \div 16777216) % 256 ELSE 0]

key_bytes(key) ==
    <<key % 256, (key \div 256) % 256, (key \div 65536) % 256,
      (key \div 16777216) % 256>>

(* send_cfg_valset: m_data after the loop over the name/value pairs, or the
   exception that ends the loop: TypeError when cfg_by_name returned None,
   struct.error when the value cannot be packed.  Nothing is sent before
   the loop has ended. *)
RECURSIVE valset_data(_, _)
\* size = 4 + cfg_type[0]; frmat = cfg_type[1]; kv_data = bytearray(size);
\* pack_into('<L', kv_data, 0, item[1]); pack_into(frmat, kv_data, 4, val1)
valset_pack(nvs, m_data, val, item, cfg_type) ==
    IF ~can_pack(cfg_type[2], 4 + cfg_type[1], val)
    THEN [outcome |-> "raise", m_data |-> m_data]
    ELSE valset_data(Tail(nvs),
             (m_data \o key_bytes(item.key))
             \o SubSeq(pack(cfg_type[2], val) \o <<0, 0, 0, 0, 0, 0, 0, 0>>,
                       1, cfg_type[1]))

\* item = gps_model.cfg_by_name(name); item[1] of None is a TypeError
valset_item(nvs, m_data, val, c) ==
    IF ~c.found THEN [outcome |-> "raise", m_data |-> m_data]
    ELSE valset_pack(nvs, m_data, val, c.item, item_to_type(c.item))

valset_data(nvs, m_data) ==
    IF nvs = <<>> THEN [outcome |-> "return", m_data |-> m_data]
    ELSE valset_item(nvs, m_data, Head(nvs)[2], cfg_by_name(Head(nvs)[1]))

\* a send_cfg_valset that sends the pairs built before the one that failed
valset_sent_mut(d, g) ==
    [outcome |-> IF d.outcome = "raise" THEN "raise" ELSE g.echo.outcome,
     written |-> g.written]

valset_send_mut(d) == valset_sent_mut(d, gps_send(6, 138, d.m_data))

send_cfg_valset_mut(nvs) == valset_send_mut(valset_data(nvs, <<0, 7, 0, 0>>))

\* gps_model.gps_send(0x06, 0x8a, m_data): the request ends as the echo of
\* the packet does
valset_sent(g) == [outcome |-> g.echo.outcome, written |-> g.written]

valset_send(d) ==
    IF d.outcome = "raise" THEN [outcome |-> "raise", written |-> <<>>]
    ELSE valset_sent(gps_send(6, 138, d.m_data))

send_cfg_valset(nvs) == valset_send(valset_data(nvs, <<0, 7, 0, 0>>))

(***************************************************************************)
(* The input files.  A file is a sequence of items; an item is a frame of  *)
(* one of the four kinds, or noise, with the bytes it puts in the file.    *)
(***************************************************************************)
MaxPayloadLen == 29
MaxBody == 1
MaxRtcmLen == 1
MaxFrames == 2

RECURSIVE Flatten(_)
Flatten(items) ==
    IF items = <<>> THEN <<>> ELSE Head(items).bytes \o Flatten(Tail(items))

Fill(n, b) == [k \in 1..n |-> b]

\* a UBX frame as make_pkt builds it, its checksum bytes raised by da, db
UbxItem(m_class, m_id, m_data, da, db) ==
    LET pkt == make_pkt(m_class, m_id, m_data)
        n   == Len(pkt)
    IN  [kind |-> "ubx", m_class |-> m_class, m_id |-> m_id, m_data |-> m_data,
         good |-> (da = 0 /\ db = 0), term |-> <<>>, whole |-> "", total |-> n,
         bytes |-> SubSeq(pkt, 1, n - 2)
                   \o <<(pkt[n - 1] + da) % 256, (pkt[n] + db) % 256>>]

\* a text line: lead-in '$', '{' or '#', a body without CR and LF, a terminator
TextItem(lead, body, term) ==
    [kind |-> "text", m_class |-> 0, m_id |-> 0, m_data |-> <<lead>> \o body,
     good |-> TRUE, term |-> term, whole |-> "", total |-> Len(body) + 1 + Len(term),
     bytes |-> (<<lead>> \o body) \o term]

\* an RTCM3 frame: 0xD3, 10-bit length, the payload, 3 CRC bytes
RtcmItem(m_data, crc) ==
    [kind |-> "rtcm3", m_class |-> 0, m_id |-> 0, m_data |-> m_data,
     good |-> TRUE, term |-> <<>>, whole |-> "", total |-> Len(m_data) + 6,
     bytes |-> (<<RTCM3_LEADER, Len(m_data) \div 256, Len(m_data) % 256>>
                \o m_data) \o crc]

NoiseItem(bytes) ==
    [kind |-> "noise", m_class |-> 0, m_id |-> 0, m_data |-> <<>>,
     good |-> TRUE, term |-> <<>>, whole |-> "", total |-> Len(bytes),
     bytes |-> bytes]

\* a UBX header that announces m_len payload bytes, followed by fewer
OverlongItem(m_class, m_id, m_len, m_data) ==
    [kind |-> "overlong", m_class |-> m_class, m_id |-> m_id, m_data |-> m_data,
     good |-> TRUE, term |-> <<>>, whole |-> "", total |-> m_len + 8,
     bytes |-> <<SYNC1, SYNC2, m_class, m_id, m_len % 256, m_len \div 256>>
               \o m_data]

\* the first k bytes of a frame, k less than its length
PartialItem(a, k) ==
    [a EXCEPT !.kind = "partial", !.whole = a.kind, !.bytes = SubSeq(a.bytes, 1, k)]

\* (class, id) pairs: with a decoder, with an entry but no decoder (NAV-ATT,
\* NMEA-GGA), a class without 'ids' (UPD), an id not in the table, a class
\* not in the table
MsgIds ==
    {<<1, 1>>, <<1, 19>>, <<1, 57>>, <<1, 67>>, <<1, 97>>, <<5, 1>>,
     <<1, 5>>, <<240, 0>>, <<9, 0>>, <<1, 8>>, <<3, 0>>,
     <<1, 20>>, <<6, 1>>, <<6, 4>>, <<6, 9>>, <<6, 138>>, <<6, 139>>, <<6, 140>>}
PayloadBytes == {0, 1, CR}
CkDeltas == {<<0, 0>>, <<1, 0>>, <<0, 1>>}
TextBytes == {65, DOLLAR}
Terminators == {<<CR>>, <<LF>>, <<CR, LF>>}

SeqsUpTo(S, n) == UNION {[1..k -> S] : k \in 0..n}

UbxItems ==
    {UbxItem(id[1], id[2], Fill(n, b), d[1], d[2]) :
        id \in MsgIds, n \in 0..MaxPayloadLen, b \in PayloadBytes, d \in CkDeltas}
TextItems ==
    {TextItem(lead, body, term) :
        lead \in {DOLLAR, LBRACE, HASH}, body \in SeqsUpTo(TextBytes, MaxBody),
        term \in Terminators}
RtcmItems ==
    {RtcmItem(Fill(n, b), <<b, 0, b>>) : n \in 0..MaxRtcmLen, b \in {0, CR}}
\* CFG-VALGET / VALSET / VALDEL payloads that name a registered key:
\* CFG-GEOFENCE-USE_PIO (L), CFG-NAVSPG-USRDAT_MAJA (R8), CFG-RINV-CHUNK0 (X8)
CfgKeys == {270794770, 1343291490, 1355218948}
CfgItems ==
    {UbxItem(6, id, (<<v, 0, 0, 0>> \o key_bytes(key)) \o Fill(n, 1), 0, 0) :
        id \in {138, 139, 140}, v \in {0, 1}, key \in CfgKeys, n \in {0, 1, 2, 8}}
\* struct.pack('<l', v), struct.pack('<H', v)
le32(v) ==
    <<v % 256, (v \div 256) % 256, (v \div 65536) % 256, (v \div 16777216) % 256>>
le16(v) == <<v % 256, (v \div 256) % 256>>

\* UBX-NAV-HPPOSLLH of a position: 1e-7 degrees and their 1e-2 parts
HpDegrees == {-741234567, 0, 1800000000}
HpParts == {-99, -23, 0, 23, 99}
HpposllhAt(iTow, lon, lat, lonHp, latHp) ==
    UbxItem(1, 20,
            (((((<<0, 0, 0, 0>> \o le32(iTow)) \o le32(lon)) \o le32(lat))
                 \o le32(100000)) \o le32(90000))
              \o <<lonHp % 256, latHp % 256, 3, 252, 20, 0, 0, 0, 30, 0, 0, 0>>,
            0, 0)
HpposllhItem(lon, lat, lonHp, latHp) == HpposllhAt(100, lon, lat, lonHp, latHp)
HpposllhItems ==
    {HpposllhItem(lon, lat, lonHp, latHp) :
        lon \in HpDegrees, lat \in {-900000000, 488000000},
        lonHp \in HpParts, latHp \in {-45, 45}}

\* UBX-NAV-PVT of 17 May 2023 10:20:30, with the flags byte and the fix type
PvtFlags == {0, 1, 64, 65, 128, 192}
PvtAt(iTow, nano, flags, fixType, n) ==
    UbxItem(1, 7,
            ((((le32(iTow) \o le16(2023)) \o <<5, 17, 10, 20, 30, 7>>)
                 \o le32(0)) \o le32(nano))
              \o (<<fixType, flags, 0, 9>> \o Fill(n - 24, 0)),
            0, 0)
PvtItem(iTow, flags, fixType, n) == PvtAt(iTow, 0, flags, fixType, n)
PvtItems ==
    {PvtItem(100, flags, fixType, n) :
        flags \in PvtFlags, fixType \in {0, 3}, n \in {84, 92}}
    \cup {UbxItem(1, 7, Fill(n, 0), 0, 0) : n \in {0, 1, 83}}

\* frames whose second length byte is not 0
LongItems ==
    {UbxItem(1, 97, Fill(n, 1), d[1], d[2]) :
        n \in {256, 258}, d \in {<<0, 0>>, <<1, 0>>}}

OverlongItems ==
    {OverlongItem(id[1], id[2], m_len, Fill(n, b)) :
        id \in {<<1, 1>>, <<3, 0>>}, m_len \in {MaxPayloadLen + 1, 65535},
        n \in {0, 16, MaxPayloadLen}, b \in {0, CR}}
    \cup {OverlongItem(1, 1, 65535, Fill(16, 0) \o <<CR>>),
          OverlongItem(1, 1, 65535, (Fill(16, 0) \o <<CR>>) \o <<HASH, 65, LF>>)}
NoiseItems ==
    {NoiseItem(<<0>>), NoiseItem(<<65>>), NoiseItem(<<CR>>), NoiseItem(<<LF>>),
     NoiseItem(<<SYNC1, 0>>), NoiseItem(<<RTCM3_LEADER, 255>>)}
(* RTCM3 frames with a length above 255, followed by a byte, and 0xD3
   followed by a byte with one of its top 6 bits set *)
RtcmRun(hi, lo, n, tail) ==
    NoiseItem((<<RTCM3_LEADER, hi, lo>> \o Fill(n, 0)) \o tail)
RtcmRuns ==
    {RtcmRun(1, 2, 261, <<0>>), RtcmRun(1, 2, 261, <<RTCM3_LEADER>>),
     RtcmRun(3, 255, 1026, <<0, HASH>>), RtcmRun(1, 2, 260, <<>>),
     RtcmRun(2, 0, 515, <<SYNC1>>), RtcmRun(0, 1, 4, <<LF>>),
     RtcmRun(5, 2, 3, <<LF>>), RtcmRun(4, 0, 3, <<LF>>),
     RtcmRun(128, 0, 3, <<LF>>), RtcmRun(LF, 0, 0, <<>>)}

Items ==
    UbxItems \cup CfgItems \cup HpposllhItems \cup PvtItems \cup LongItems
        \cup OverlongItems \cup TextItems \cup RtcmItems \cup NoiseItems
        \cup RtcmRuns

\* the items files of several frames are made of
CoreItems ==
    {UbxItem(1, 97, Fill(4, 0), 0, 0), UbxItem(1, 5, <<>>, 0, 0),
     UbxItem(9, 0, <<CR>>, 0, 0), UbxItem(1, 57, Fill(10, 0), 0, 0),
     UbxItem(1, 19, Fill(28, 0), 0, 1),
     TextItem(DOLLAR, <<65>>, <<CR, LF>>), TextItem(HASH, <<>>, <<LF>>),
     RtcmItem(<<>>, <<0, 0, 0>>),
     NoiseItem(<<0>>), NoiseItem(<<CR>>), NoiseItem(<<SYNC1>>),
     UbxItem(6, 139, <<1, 0, 0, 0>>, 0, 0)}

\* the frames whose prefixes are fed alone
PartialItems ==
    UNION {{PartialItem(a, k) : k \in 0..(a.total - 1)} :
              a \in {b \in CoreItems : b.kind # "noise"} \cup TextItems \cup RtcmItems}

Files ==
    {<<>>} \cup {<<a>> : a \in Items \cup PartialItems}
           \cup UNION {[1..k -> CoreItems] : k \in 2..MaxFrames}

(***************************************************************************)
(* The caller: ubx_read of src/test.py and the file branch of gps_io.read. *)
(* It reads the whole file into out, then calls decode_msg on out and      *)
(* drops `consumed` bytes until a call returns consumed <= 0.  An          *)
(* exception of decode_msg other than IOError leaves the function; a call  *)
(* that does not come back leaves the caller waiting.                      *)
(***************************************************************************)
(* protver is opts['protver'], sent the packets written to the transport,  *)
(* op the last call made of the sender and of the registry.                *)
VARIABLES frames, out, pc, consumed, gnss_data, stderr, calls, protver, sent, op,
          start, timestamp, sentences_group, pos_lines, sentences, groups, gen_pc

vars == <<frames, out, pc, consumed, gnss_data, stderr, calls, protver, sent, op,
          start, timestamp, sentences_group, pos_lines, sentences, groups, gen_pc>>

(* The converter of src/ubx_convert.py: start is the offset of
   ubx_read_generator in the file, timestamp and sentences_group the locals
   of iTow_group_generator, gen_pc the for loop it is in, pos_lines the lines
   of the pos file; sentences are the messages ubx_read_generator yielded
   and groups the groups iTow_group_generator yielded, each with what the
   main loop did with it. *)
conv_vars == <<start, timestamp, sentences_group, pos_lines, sentences, groups, gen_pc>>

\* a dict: a function of its keys
EmptyDict == [k \in {} |-> 0]
Put(d, key, value) ==
    [k \in DOMAIN d \cup {key} |-> IF k = key THEN value ELSE d[k]]

ConvIdle ==
    /\ start = 0
    /\ timestamp = 0
    /\ sentences_group = EmptyDict
    /\ pos_lines = <<>>
    /\ sentences = <<>>
    /\ groups = <<>>
    /\ gen_pc = "first"

\* opts['protver'] as the opts dictionary is built, and as -P sets it
ProtVers == {10, 15, 18}

NoOp == [name |-> "none", args |-> <<>>, outcome |-> "return", result |-> <<>>]

Init ==
    /\ frames \in Files
    /\ out = <<>>
    /\ pc = "open"
    /\ consumed = 0
    /\ gnss_data = <<>>
    /\ stderr = 0
    /\ calls = <<>>
    /\ protver \in ProtVers
    /\ sent = <<>>
    /\ op = NoOp
    /\ ConvIdle

\* out += ubx_file.read()
ReadFile ==
    /\ pc = "open"
    /\ out' = out \o Flatten(frames)
    /\ pc' = "loop"
    /\ UNCHANGED <<frames, consumed, gnss_data, stderr, calls, protver, sent, op,
                 conv_vars>>

\* a call of decode_msg: its buffer, opts['protver'] when it was made, how it
\* ended, what it returned and wrote, and the frame fields it ended with
CallRecord(r, buf, pv) ==
    [outcome |-> r.outcome, consumed |-> r.consumed, data |-> r.data,
     stderr |-> r.stderr, buf |-> buf, protver |-> pv,
     min_protver |-> r.min_protver, m_class |-> r.st.m_class,
     m_id |-> r.st.m_id, m_payload |-> r.st.m_payload, m_len |-> r.st.m_len,
     m_raw |-> r.st.m_raw, m_ck_a |-> r.st.m_ck_a, m_ck_b |-> r.st.m_ck_b]

\* if 27 > opts['protver']: opts['protver'] = 27, where a decoder ran it
set_protver(pv, r) == IF r.min_protver > pv THEN r.min_protver ELSE pv

\* consumed, data = decode_msg(out); gnss_data.append(data);
\* out = out[consumed:]; if 0 >= consumed: return gnss_data
Returned(r) ==
    /\ r.outcome = "return"
    /\ consumed' = r.consumed
    /\ gnss_data' = Append(gnss_data, r.data)
    /\ out' = SubSeq(out, r.consumed + 1, Len(out))
    /\ stderr' = stderr + r.stderr
    /\ calls' = Append(calls, CallRecord(r, out, protver))
    /\ pc' = IF 0 >= r.consumed THEN "done" ELSE "loop"
    /\ protver' = set_protver(protver, r)

DecodeReturn ==
    /\ pc = "loop"
    /\ Returned(decode_msg(out))
    /\ UNCHANGED <<frames, sent, op, conv_vars>>

\* struct.error from the payload decoder: not an IOError, so it propagates
Ended(r, how) ==
    /\ r.outcome = how
    /\ stderr' = stderr + r.stderr
    /\ calls' = Append(calls, CallRecord(r, out, protver))
    /\ protver' = set_protver(protver, r)

DecodeRaise ==
    /\ pc = "loop"
    /\ Ended(decode_msg(out), "raise")
    /\ pc' = "raised"
    /\ UNCHANGED <<frames, out, consumed, gnss_data, sent, op, conv_vars>>

\* the payload decoder does not come back
DecodeHang ==
    /\ pc = "loop"
    /\ Ended(decode_msg(out), "hang")
    /\ pc' = "hung"
    /\ UNCHANGED <<frames, out, consumed, gnss_data, sent, op, conv_vars>>

\* send_able_binary(able) once the file is decoded: one gps_send per payload
SendAbleBinary ==
    /\ pc = "done"
    /\ \E able \in BOOLEAN :
           LET m_datas == send_able_binary(able, protver)
           IN  /\ sent' = sent \o [k \in 1..Len(m_datas) |->
                                      gps_send(6, 1, m_datas[k]).written[1]]
               /\ op' = [name |-> "send_able_binary", args |-> <<able>>,
                         outcome |-> "return", result |-> m_datas]
    /\ pc' = "sent"
    /\ UNCHANGED <<frames, out, consumed, gnss_data, stderr, calls, protver, conv_vars>>

Next == ReadFile \/ DecodeReturn \/ DecodeRaise \/ DecodeHang \/ SendAbleBinary

Spec == Init /\ [][Next]_vars

(***************************************************************************)
(* The sender and the registry called on their own: one call of checksum,  *)
(* make_pkt, cfg_by_key, cfg_by_name or item_to_type, or one VALSET        *)
(* request, made through the set_item branch of the main program or by     *)
(* calling send_cfg_valset.  op records the call, how it ended and what    *)
(* it returned.                                                            *)
(***************************************************************************)
MaxCkLen == 3
MaxPktLen == 2
MaxNvs == 2

CkBytes == {0, 1, 128, 255}
CkMsgs == SeqsUpTo(CkBytes, MaxCkLen)

PktBytes == {0, 1, 255}
PktPayloads ==
    SeqsUpTo(PktBytes, MaxPktLen) \cup {Fill(n, 255) : n \in {16, 255, 256, 300}}

\* every registered key, and for each size class two keys in no item
RegisteredKeys == {cfgs[k].key : k \in 1..Len(cfgs)}
Keys ==
    RegisteredKeys
        \cup {(sc * 268435456) + g : sc \in 0..7, g \in {0, 65537, 16711935}}

\* every registered name, and a name in no item
Names == {cfgs[k].name : k \in 1..Len(cfgs)} \cup {"CFG-NOSUCH-ITEM"}

\* the items of the registry, and for each value type an item of each size class
TypeItems ==
    {cfgs[k] : k \in 1..Len(cfgs)}
        \cup {[name |-> "CFG-X-Y", key |-> (sc * 268435456) + 1, type |-> t,
               scale |-> "1", unit |-> ""] :
                  t \in DOMAIN cfg_types \cup {"", "Z0", "Z6", "Z7"}, sc \in 0..7}

\* names of items of type L, I2, R8, X8 and "", and a name in no item
ValsetNames ==
    {"CFG-GEOFENCE-USE_PIO", "CFG-TP-ANT_CABLEDELAY", "CFG-NAVSPG-USRDAT_MAJA",
     "CFG-RINV-CHUNK0", "CFG-ODO-COGLPGAIN", "CFG-NOSUCH-ITEM"}
ValsetVals == {1, 300}
Nvs == SeqsUpTo(ValsetNames \X ValsetVals, MaxNvs)

\* opts['protver'] as the -P option leaves it: an integer, 10 <= protver <= 27
ProtRange == 10..27

EncInit ==
    /\ frames = <<>>
    /\ out = <<>>
    /\ pc = "idle"
    /\ consumed = 0
    /\ gnss_data = <<>>
    /\ stderr = 0
    /\ calls = <<>>
    /\ protver \in ProtRange
    /\ sent = <<>>
    /\ op = NoOp
    /\ ConvIdle

CallChecksum ==
    /\ pc = "idle"
    /\ \E msg \in CkMsgs, m_len \in 0..(MaxCkLen + 1) :
           op' = [name |-> "checksum", args |-> <<msg, m_len>>,
                  outcome |-> "return", result |-> checksum(msg, m_len)]
    /\ pc' = "called"
    /\ UNCHANGED <<frames, out, consumed, gnss_data, stderr, calls, protver, sent,
                 conv_vars>>

CallMakePkt ==
    /\ pc = "idle"
    /\ \E m_class \in PktBytes, m_id \in PktBytes, m_data \in PktPayloads :
           op' = [name |-> "make_pkt", args |-> <<m_class, m_id, m_data>>,
                  outcome |-> "return", result |-> make_pkt(m_class, m_id, m_data)]
    /\ pc' = "called"
    /\ UNCHANGED <<frames, out, consumed, gnss_data, stderr, calls, protver, sent,
                 conv_vars>>

CallCfgByKey ==
    /\ pc = "idle"
    /\ \E key \in Keys :
           LET c == cfg_by_key(key)
           IN  op' = [name |-> "cfg_by_key", args |-> <<key>>,
                      outcome |-> c.outcome, result |-> c.item]
    /\ pc' = "called"
    /\ UNCHANGED <<frames, out, consumed, gnss_data, stderr, calls, protver, sent,
                 conv_vars>>

CallCfgByName ==
    /\ pc = "idle"
    /\ \E name \in Names :
           op' = [name |-> "cfg_by_name", args |-> <<name>>,
                  outcome |-> "return", result |-> cfg_by_name(name)]
    /\ pc' = "called"
    /\ UNCHANGED <<frames, out, consumed, gnss_data, stderr, calls, protver, sent,
                 conv_vars>>

CallItemToType ==
    /\ pc = "idle"
    /\ \E item \in TypeItems :
           op' = [name |-> "item_to_type", args |-> <<item>>,
                  outcome |-> "return", result |-> item_to_type(item)]
    /\ pc' = "called"
    /\ UNCHANGED <<frames, out, consumed, gnss_data, stderr, calls, protver, sent,
                 conv_vars>>

\* send_able_binary(able) with opts['protver'] as it is
CallSendAbleBinary ==
    /\ pc = "idle"
    /\ \E able \in BOOLEAN :
           LET m_datas == send_able_binary(able, protver)
           IN  /\ sent' = sent \o [k \in 1..Len(m_datas) |->
                                      gps_send(6, 1, m_datas[k]).written[1]]
               /\ op' = [name |-> "send_able_binary", args |-> <<able>>,
                         outcome |-> "return", result |-> m_datas]
    /\ pc' = "sent"
    /\ UNCHANGED <<frames, out, consumed, gnss_data, stderr, calls, protver,
                   conv_vars>>

\* send_cfg_valset(nvs), called as it is
Requested(name, nvs, r) ==
    /\ sent' = sent \o r.written
    /\ op' = [name |-> name, args |-> <<nvs>>,
              outcome |-> r.outcome, result |-> r.written]
    /\ pc' = IF r.outcome = "return" THEN "sent" ELSE "raised"

SendCfgValset ==
    /\ pc = "idle"
    /\ \E nvs \in Nvs : Requested("send_cfg_valset", nvs, send_cfg_valset(nvs))
    /\ UNCHANGED <<frames, out, consumed, gnss_data, stderr, calls, protver, conv_vars>>

\* the set_item branch of the main program: every name is looked up first,
\* exit(1) on the first that cfg_by_name does not find, then send_cfg_valset
MainSetItem ==
    /\ pc = "idle"
    /\ \E nvs \in Nvs \ {<<>>} :
           IF \E k \in 1..Len(nvs) : ~cfg_by_name(nvs[k][1]).found
           THEN /\ op' = [name |-> "set_item", args |-> <<nvs>>,
                          outcome |-> "exit", result |-> <<>>]
                /\ pc' = "exit"
                /\ sent' = sent
           ELSE Requested("set_item", nvs, send_cfg_valset(nvs))
    /\ UNCHANGED <<frames, out, consumed, gnss_data, stderr, calls, protver, conv_vars>>

EncNext ==
    \/ CallChecksum
    \/ CallMakePkt
    \/ CallCfgByKey
    \/ CallCfgByName
    \/ CallItemToType
    \/ CallSendAbleBinary
    \/ SendCfgValset
    \/ MainSetItem

EncSpec == EncInit /\ [][EncNext]_vars

(***************************************************************************)
(* The converter: src/ubx_convert.py run with --pos.  ubx_read_generator   *)
(* reads the whole file and decodes it through a window of WINDOW bytes at *)
(* start; iTow_group_generator groups the messages it yields by iTow; the  *)
(* main loop makes a pos line of each group.  One step is one round of the *)
(* while loop of ubx_read_generator, with what the two consumers do with   *)
(* the message it yields; when the reader breaks, the generators are       *)
(* exhausted and the pos file is written.  An exception that leaves        *)
(* decode_msg or iTow_group_generator is caught nowhere and ends the       *)
(* program before the file is written.                                     *)
(***************************************************************************)
WINDOW == 8192
type_filter == {"UBX-NAV-PVT", "UBX-NAV-HPPOSLLH"}

\* out[start:start+8192]
Window(buf, s) ==
    SubSeq(buf, s + 1, IF s + WINDOW < Len(buf) THEN s + WINDOW ELSE Len(buf))

\* isinstance(data, dict) and data['type'] in type_filter
passes(data) == data.kind = "decoded" /\ data.type \in type_filter

\* sentence['msg'].get('iTow') raises AttributeError when msg is a string
is_dict(msg) == msg.kind = "fields"
has_iTow(msg) == "iTow" \in DOMAIN msg

\* round(x / 1000) of a non-negative integer x, halves to the even neighbour
round_div(x, per) ==
    IF (2 * (x % per) > per) \/ (2 * (x % per) = per /\ (x \div per) % 2 = 1)
    THEN (x \div per) + 1 ELSE x \div per

days_in_month(year, month) ==
    IF month = 2
    THEN (IF (year % 4 = 0 /\ year % 100 # 0) \/ year % 400 = 0 THEN 29 ELSE 28)
    ELSE IF month \in {4, 6, 9, 11} THEN 30 ELSE 31

(* complete_second = second + nano * 1E-9; the arguments of
   datetime.datetime: second int(complete_second // 1) and microsecond
   round((complete_second % 1) * 1E6) *)
point_time(pvt) ==
    [year |-> pvt.year, month |-> pvt.month, day |-> pvt.day,
     hour |-> pvt.hour, minute |-> pvt.minute,
     second |-> pvt.second + (pvt.nano \div 1000000000),
     microsecond |-> round_div(pvt.nano % 1000000000, 1000)]

\* datetime.datetime raises ValueError unless every argument is in its range
valid_time(t) ==
    /\ t.year \in 1..9999 /\ t.month \in 1..12
    /\ t.day >= 1 /\ t.day <= days_in_month(t.year, t.month)
    /\ t.hour \in 0..23 /\ t.minute \in 0..59 /\ t.second \in 0..59
    /\ t.microsecond \in 0..999999

\* {False: 5, 'Float': 2, 'Fixed': 1}.get(carrSoln)
sol_type(carrSoln) ==
    CASE carrSoln = "False" -> 5
      [] carrSoln = "Float" -> 2
      [] carrSoln = "Fixed" -> 1

(* the fields of the pos line: the time rounded to the millisecond (carry
   is the second added when the microseconds round up to it), the position
   of UBX-NAV-HPPOSLLH, Q and ns of UBX-NAV-PVT, the deviations *)
convert_to_pos_line(point_group, t) ==
    [time |-> IF t.microsecond > 999499 THEN [t EXCEPT !.microsecond = 0]
              ELSE [t EXCEPT !.microsecond = round_div(t.microsecond, 1000)],
     carry |-> IF t.microsecond > 999499 THEN 1 ELSE 0,
     prec_lat |-> point_group["UBX-NAV-HPPOSLLH"].prec_lat,
     prec_lon |-> point_group["UBX-NAV-HPPOSLLH"].prec_lon,
     prec_height |-> point_group["UBX-NAV-HPPOSLLH"].prec_height,
     Q |-> sol_type(point_group["UBX-NAV-PVT"].carrSoln),
     ns |-> point_group["UBX-NAV-PVT"].numSV,
     sdn |-> point_group["UBX-NAV-HPPOSLLH"].hAcc,
     sdu |-> point_group["UBX-NAV-HPPOSLLH"].vAcc]

(* the body of the main loop for one group: "continue" without a fix,
   "except" when a key of the group is missing or the time is no time
   (KeyError and ValueError, caught and printed), else "line" *)
main_body(group) ==
    IF "UBX-NAV-PVT" \notin DOMAIN group THEN "except"
    ELSE IF group["UBX-NAV-PVT"].fixType = 0 THEN "continue"
    ELSE IF ~valid_time(point_time(group["UBX-NAV-PVT"])) THEN "except"
    ELSE IF "UBX-NAV-HPPOSLLH" \notin DOMAIN group THEN "except"
    ELSE "line"

\* for group in iTow_group: one group yielded and handled
MainLoop(group) ==
    /\ groups' = Append(groups, [group |-> group, how |-> main_body(group),
                                 line |-> Len(pos_lines) + 1])
    /\ pos_lines' =
           IF main_body(group) = "line"
           THEN Append(pos_lines,
                       convert_to_pos_line(group, point_time(group["UBX-NAV-PVT"])))
           ELSE pos_lines

\* the first for loop of iTow_group_generator: until a message has an iTow
FirstLoop(sentence) ==
    /\ IF has_iTow(sentence.msg)
       THEN /\ timestamp' = sentence.msg.iTow
            /\ sentences_group' =
                   Put(Put(sentences_group, "iTow", sentence.msg.iTow),
                       sentence.type, sentence.msg)
            /\ gen_pc' = "second"
       ELSE UNCHANGED <<timestamp, sentences_group, gen_pc>>
    /\ UNCHANGED <<pos_lines, groups>>

\* a second loop that puts the message in the group before it yields it
SecondLoop_mut(sentence) ==
    /\ IF ~has_iTow(sentence.msg) \/ sentence.msg.iTow = timestamp
       THEN /\ sentences_group' =
                   Put(sentences_group, sentence.type, sentence.msg)
            /\ UNCHANGED <<timestamp, pos_lines, groups>>
       ELSE /\ timestamp' = sentence.msg.iTow
            /\ MainLoop(Put(sentences_group, sentence.type, sentence.msg))
            /\ sentences_group' =
                   Put(Put(EmptyDict, "iTow", sentence.msg.iTow),
                       sentence.type, sentence.msg)
    /\ UNCHANGED gen_pc

(* the second for loop: a message of the same iTow joins the group; one of
   another iTow has the group yielded and starts the next *)
SecondLoop(sentence) ==
    /\ IF ~has_iTow(sentence.msg) \/ sentence.msg.iTow = timestamp
       THEN /\ sentences_group' =
                   Put(sentences_group, sentence.type, sentence.msg)
            /\ UNCHANGED <<timestamp, pos_lines, groups>>
       ELSE /\ timestamp' = sentence.msg.iTow
            /\ MainLoop(sentences_group)
            /\ sentences_group' =
                   Put(Put(EmptyDict, "iTow", sentence.msg.iTow),
                       sentence.type, sentence.msg)
    /\ UNCHANGED gen_pc

\* when the reader breaks both generators end and the pos file is written
AfterYield(c) == pc' = IF 0 >= c THEN "written" ELSE "loop"

\* yield data, and the consumers run until they ask for the next message
Yielded(sentence, c) ==
    /\ sentences' = Append(sentences, sentence)
    /\ IF ~is_dict(sentence.msg)
       THEN /\ pc' = "raised"
            /\ UNCHANGED <<timestamp, sentences_group, pos_lines, groups, gen_pc>>
       ELSE /\ IF gen_pc = "first" THEN FirstLoop(sentence)
               ELSE SecondLoop(sentence)
            /\ AfterYield(c)

\* start = start + consumed; consumed, data = decode_msg(out[start:start+8192])
Generated(r, s) ==
    /\ r.outcome = "return"
    /\ start' = s
    /\ consumed' = r.consumed
    /\ stderr' = stderr + r.stderr
    /\ calls' = Append(calls, CallRecord(r, Window(out, s), protver))
    /\ protver' = set_protver(protver, r)
    /\ IF passes(r.data) THEN Yielded(r.data, r.consumed)
       ELSE /\ AfterYield(r.consumed)
            /\ UNCHANGED <<timestamp, sentences_group, pos_lines, sentences,
                           groups, gen_pc>>

GenReturn ==
    /\ pc = "loop"
    /\ Generated(decode_msg(Window(out, start + consumed)), start + consumed)
    /\ UNCHANGED <<frames, out, gnss_data, sent, op>>

\* decode_msg does not return: the payload decoder raised or does not end
GenEnded(r, s, how) ==
    /\ r.outcome = how
    /\ start' = s
    /\ stderr' = stderr + r.stderr
    /\ calls' = Append(calls, CallRecord(r, Window(out, s), protver))
    /\ protver' = set_protver(protver, r)

GenRaise ==
    /\ pc = "loop"
    /\ GenEnded(decode_msg(Window(out, start + consumed)), start + consumed, "raise")
    /\ pc' = "raised"
    /\ UNCHANGED <<frames, out, consumed, gnss_data, sent, op, timestamp,
                   sentences_group, pos_lines, sentences, groups, gen_pc>>

GenHang ==
    /\ pc = "loop"
    /\ GenEnded(decode_msg(Window(out, start + consumed)), start + consumed, "hang")
    /\ pc' = "hung"
    /\ UNCHANGED <<frames, out, consumed, gnss_data, sent, op, timestamp,
                   sentences_group, pos_lines, sentences, groups, gen_pc>>

(* The files converted: navigation messages of two epochs, with the flags
   of UBX-NAV-PVT that name the carrier solution, other frames, lines and
   noise between them, and files where more than a window of bytes that
   hold no message lies before the messages. *)
MaxConvFrames == 3
Epochs == <<100, 200>>
ConvItems ==
    {PvtItem(Epochs[1], flags, 3, 92) : flags \in {0, 64, 128, 192}}
    \cup {HpposllhAt(Epochs[1], -741234567, 488000000, 23, -45),
          PvtItem(Epochs[2], 1, 3, 84),
          HpposllhAt(Epochs[2], -741234567, 488000000, -23, 45),
          PvtItem(Epochs[2], 0, 0, 84),
          UbxItem(1, 97, Fill(4, 0), 0, 0),
          TextItem(DOLLAR, <<65>>, <<CR, LF>>),
          NoiseItem(<<0>>)}
BigItems ==
    {NoiseItem(Fill(WINDOW, 0)),
     NoiseItem(Flatten([k \in 1..9 |-> RtcmItem(Fill(1023, 0), <<0, 0, 0>>)])),
     UbxItem(2, 21, Fill(WINDOW, 0), 0, 0)}
OddItems ==
    {UbxItem(1, 7, <<>>, 0, 0), UbxItem(1, 7, Fill(3, 0), 0, 0),
     UbxItem(1, 57, Fill(10, 0), 0, 0), UbxItem(1, 19, <<0>>, 0, 0),
     PvtItem(Epochs[1], 0, 3, 84),
     UbxItem(1, 7, (Fill(20, 0) \o <<3>>) \o Fill(71, 0), 0, 0)}
\* the nanoseconds of NAV-PVT, from -1e9 to 1e9 in the message
Nanos ==
    {400000, 123000000, 123456000, 500000000, 999400000, 999499000,
     999500000, 999999000, -250000000}
ConvFiles ==
    UNION {[1..k -> ConvItems] : k \in 0..MaxConvFrames}
    \cup {<<a, PvtItem(Epochs[1], 64, 3, 92),
            HpposllhAt(Epochs[1], -741234567, 488000000, 23, -45),
            PvtItem(Epochs[2], 1, 3, 84)>> : a \in BigItems \cup OddItems}
    \cup {<<PvtAt(Epochs[1], nano, 1, 3, 92),
            HpposllhAt(Epochs[1], -741234567, 488000000, 23, -45),
            PvtItem(Epochs[2], 1, 3, 84)>> : nano \in Nanos}

\* gps_model = ubx(): opts as ubxtool builds it
ConvInit ==
    /\ frames \in ConvFiles
    /\ out = <<>>
    /\ pc = "open"
    /\ consumed = 0
    /\ gnss_data = <<>>
    /\ stderr = 0
    /\ calls = <<>>
    /\ protver = 10
    /\ sent = <<>>
    /\ op = NoOp
    /\ ConvIdle

ConvNext == ReadFile \/ GenReturn \/ GenRaise \/ GenHang

ConvSpec == ConvInit /\ [][ConvNext]_vars

(***************************************************************************)
(* round_time of src/round_time.py, called on its own.  A datetime is the  *)
(* second of its day and its microsecond; the day is left out, and a       *)
(* result in the next day has 86400 seconds or more.  A timedelta is its   *)
(* seconds and microseconds.  The arithmetic of the source is on floats:   *)
(* round_to is date_delta.total_seconds().  It is modelled exactly, for    *)
(* the date_delta where the floats are exact: whole seconds, and the       *)
(* halves, quarters and eighths of a second.                               *)
(***************************************************************************)
None == [none |-> TRUE]

\* x // round_to * round_to for round_to a whole number of seconds
floor_to(x, round_to) == (x \div round_to) * round_to

\* (x + round_to / 2) // round_to * round_to
nearest_to(x, round_to) == (((2 * x) + round_to) \div (2 * round_to)) * round_to

(* the seconds `rounding` for a date_delta of whole seconds; the
   microseconds of dt are less than a second and leave the floor as it is *)
rounding_seconds(seconds, microsecond, round_to, to) ==
    IF seconds % round_to = 0 /\ microsecond = 0
    THEN nearest_to(seconds, round_to)
    ELSE IF to = "up" THEN floor_to(seconds + round_to, round_to)
    ELSE IF to = "down" THEN floor_to(seconds, round_to)
    ELSE nearest_to(seconds, round_to)

(* rounding - seconds in microseconds for a date_delta of round_to
   microseconds that divides the second: seconds is a multiple of it, and
   only 'up' looks at the microseconds of dt *)
rounding_micros(microsecond, round_to, to) ==
    IF microsecond = 0 THEN 0
    ELSE IF to = "up" THEN floor_to(microsecond + round_to, round_to)
    ELSE 0

\* dt + datetime.timedelta(0, rounding - seconds, - dt.microsecond)
round_time(dt, date_delta, to) ==
    IF dt = None
    THEN [outcome |-> "raise", seconds |-> 0, microsecond |-> 0]
    ELSE IF date_delta.microseconds = 0
    THEN [outcome |-> "return",
          seconds |-> rounding_seconds(dt.seconds, dt.microsecond,
                                       date_delta.seconds, to),
          microsecond |-> 0]
    ELSE [outcome |-> "return",
          seconds |-> dt.seconds
              + (rounding_micros(dt.microsecond, date_delta.microseconds, to)
                     \div 1000000),
          microsecond |->
              rounding_micros(dt.microsecond, date_delta.microseconds, to)
                  % 1000000]

DaySeconds == {0, 1, 29, 30, 52740, 52755, 52769, 85499, 86399}
Microseconds == {0, 1, 7769, 250000, 499999, 500000, 776980, 999999}
Datetimes ==
    {[seconds |-> s, microsecond |-> u] : s \in DaySeconds, u \in Microseconds}
Timedeltas ==
    {[seconds |-> s, microseconds |-> 0] : s \in {1, 7, 30, 3600}}
    \cup {[seconds |-> 0, microseconds |-> u] : u \in {500000, 250000, 125000}}
Modes3 == {"up", "down", "average"}

CallRoundTime ==
    /\ pc = "idle"
    /\ \E dt \in Datetimes \cup {None}, date_delta \in Timedeltas, to \in Modes3 :
           op' = [name |-> "round_time", args |-> <<dt, date_delta, to>>,
                  outcome |-> round_time(dt, date_delta, to).outcome,
                  result |-> round_time(dt, date_delta, to)]
    /\ pc' = "called"
    /\ UNCHANGED <<frames, out, consumed, gnss_data, stderr, calls, protver, sent,
                   conv_vars>>

RoundInit ==
    /\ frames = <<>>
    /\ out = <<>>
    /\ pc = "idle"
    /\ consumed = 0
    /\ gnss_data = <<>>
    /\ stderr = 0
    /\ calls = <<>>
    /\ protver = 10
    /\ sent = <<>>
    /\ op = NoOp
    /\ ConvIdle

RoundNext == CallRoundTime

RoundSpec == RoundInit /\ [][RoundNext]_vars

TypeOK ==
    /\ pc \in {"open", "loop", "done", "raised", "hung", "sent", "idle", "called",
               "exit", "written"}
    /\ consumed \in 0..Len(Flatten(frames))
    /\ Len(gnss_data) <= Len(calls)

(***************************************************************************)
(* Properties.  FirstCall is the first call of the caller loop, made on    *)
(* the whole file; First is the item the file starts with.                 *)
(***************************************************************************)
Called == Len(frames) >= 1 /\ Len(calls) >= 1
First == frames[1]
FirstCall == calls[1]

\* what a caller sees of a call: how it ended and the pair it returned
Observable(r) == <<r.outcome, r.consumed, r.data>>

\* (class, id) has a payload decoder registered
HasDecoder(m_class, m_id) ==
    /\ m_class \in DOMAIN classes
    /\ "ids" \in DOMAIN classes[m_class]
    /\ m_id \in DOMAIN classes[m_class].ids
    /\ "dec" \in DOMAIN classes[m_class].ids[m_id]

\* class, id and payload can be read back from the returned data: the raw
\* fallback names class and id and lists the payload; a decoded message names
\* its type, and carries the payload as the fields unpacked from it, its
\* length in a bad-length message, or nothing for a poll request
Recovers(data, m_class, m_id, m_data) ==
    \/ /\ data.kind = "raw"
       /\ data.label.m_class = m_class
       /\ data.label.m_id = m_id
       /\ data.len = Len(m_data)
       /\ data.hex = HexString(m_data)
    \/ /\ data.kind = "decoded"
       /\ HasDecoder(m_class, m_id)
       /\ data.type = classes[m_class].ids[m_id].name
       /\ \/ data.msg.kind = "poll" /\ m_data = <<>>
          \/ data.msg.kind = "badlen" /\ data.msg.len = Len(m_data)
          \/ data.msg.kind = "fields"
             /\ data.msg.u = SubSeq(m_data, 1, Len(data.msg.u))

(* C1: round trip.  For every class, id and payload, decode_msg on the
   frame make_pkt built returns consumed = len(payload) + 8 and data from
   which class, id and payload are recovered, and writes no checksum
   diagnostic. *)
C1_RoundTrip ==
    (Called /\ First.kind = "ubx" /\ First.good) =>
        /\ FirstCall.outcome = "return"
        /\ FirstCall.consumed = Len(First.m_data) + 8
        /\ Recovers(FirstCall.data, First.m_class, First.m_id, First.m_data)
        /\ FirstCall.stderr = 0

(* C2: a buffer that starts with a complete frame of any of the four kinds
   makes decode_msg return, within that frame, consumed >= 1 and a
   non-empty message; for an RTCM3 frame the message is the frame. *)
C2_CompleteFrameReturned ==
    (Called /\ First.kind \in {"ubx", "text", "rtcm3"}) =>
        /\ FirstCall.outcome = "return"
        /\ FirstCall.consumed >= 1
        /\ FirstCall.consumed <= First.total
        /\ FirstCall.data.kind # "empty"
        /\ First.kind = "rtcm3" => FirstCall.consumed = First.total

(* C3: on a file of N valid UBX frames the caller loop makes N calls that
   each consume exactly one frame, and call N + 1, on the empty remainder,
   returns consumed = 0. *)
AllValidUbx == \A k \in 1..Len(frames) : frames[k].kind = "ubx" /\ frames[k].good
C3_Reframing ==
    (AllValidUbx /\ pc \in {"done", "raised", "hung"}) =>
        /\ pc = "done"
        /\ Len(calls) = Len(frames) + 1
        /\ \A k \in 1..Len(frames) : calls[k].consumed = frames[k].total
        /\ calls[Len(calls)].consumed = 0
        /\ calls[Len(calls)].buf = <<>>

(* C4: the caller loop terminates on every file: every call of decode_msg
   comes back, every call with consumed > 0 leaves a shorter buffer, and
   the loop returns after a call with consumed = 0. *)
C4_LoopTerminates ==
    /\ pc # "hung"
    /\ \A k \in 1..Len(calls) :
           (calls[k].outcome = "return" /\ calls[k].consumed > 0) =>
               calls[k].consumed <= Len(calls[k].buf)
    /\ pc = "done" => calls[Len(calls)].consumed = 0

(* C5: for every valid frame of n bytes and every k < n, decode_msg on its
   first k bytes returns (0, empty). *)
C5_PartialFrame ==
    (Called /\ First.kind = "partial") =>
        /\ FirstCall.outcome = "return"
        /\ FirstCall.consumed = 0
        /\ FirstCall.data = Empty

(* C5 as amended: the same for every k < n of a UBX frame, an RTCM3 frame
   and a line ended by one CR or LF, and for every k < n - 1 of a line ended
   by CR LF (its first n - 1 bytes are a complete line already). *)
BeforeTerminator(a) == Len(a.bytes) < a.total - (IF a.term = <<CR, LF>> THEN 1 ELSE 0)
C5_PartialFrameAmended ==
    (Called /\ First.kind = "partial" /\ BeforeTerminator(First)) =>
        /\ FirstCall.outcome = "return"
        /\ FirstCall.consumed = 0
        /\ FirstCall.data = Empty
C5_Witness ==
    /\ Called /\ First.kind = "partial" /\ First.whole = "ubx"
    /\ Len(First.bytes) = First.total - 1
    /\ FirstCall.consumed = 0

(* C6: decode_msg never raises; every call returns a pair. *)
C6_NeverRaises == \A k \in 1..Len(calls) : calls[k].outcome # "raise"

(* C7: a UBX frame with wrong checksum bytes gets the same outcome, the same
   consumed and the same data as the frame with the right ones (so it is
   dispatched all the same), and one diagnostic on stderr. *)
C7_ChecksumNonFatal ==
    (Called /\ First.kind = "ubx" /\ ~First.good) =>
        LET right == decode_msg(make_pkt(First.m_class, First.m_id, First.m_data))
        IN  /\ Observable(FirstCall) = Observable(right)
            /\ right.stderr = 0
            /\ FirstCall.stderr = 1
C7_Witness ==
    /\ Called /\ First.kind = "ubx" /\ ~First.good
    /\ FirstCall.outcome = "return" /\ FirstCall.data.kind = "decoded"
    /\ FirstCall.data.msg.kind = "fields"
    /\ stderr = 1

(* C8: a complete UBX frame whose (class, id) has no registered decoder is
   returned as the raw fallback: the class/id label, the payload length and
   the hex payload. *)
C8_RawFallback ==
    (Called /\ First.kind = "ubx" /\ ~HasDecoder(First.m_class, First.m_id)) =>
        /\ FirstCall.outcome = "return"
        /\ FirstCall.data.kind = "raw"
        /\ FirstCall.data.label = class_id_s(First.m_class, First.m_id)
        /\ FirstCall.data.len = Len(First.m_data)
        /\ FirstCall.data.hex = HexString(First.m_data)

(* C9: for a line ended by CR, LF or CR LF, consumed is the length of the
   line with its whole terminator, and the text starts with the lead-in and
   holds no terminator byte. *)
NoTerminatorIn(text) == \A k \in 1..Len(text) : text[k] \notin {CR, LF}
C9_TextLine ==
    (Called /\ First.kind = "text") =>
        /\ FirstCall.outcome = "return"
        /\ FirstCall.consumed = First.total
        /\ FirstCall.data.kind = "text"
        /\ FirstCall.data.text # <<>>
        /\ FirstCall.data.text[1] = First.m_data[1]
        /\ NoTerminatorIn(FirstCall.data.text)

(* C9 as amended: consumed is the length of the line up to and including
   its first terminator byte, and the text is the line without terminator;
   the LF of a CR LF stays in the buffer and the next call returns
   (1, empty) for it. *)
C9_TextLineAmended ==
    (Called /\ First.kind = "text") =>
        /\ FirstCall.outcome = "return"
        /\ FirstCall.consumed = Len(First.m_data) + 1
        /\ FirstCall.data = Text(First.m_data)
        /\ NoTerminatorIn(FirstCall.data.text)
        /\ (First.term = <<CR, LF>> /\ Len(calls) >= 2) =>
               /\ calls[2].buf[1] = LF
               /\ calls[2].consumed = 1
               /\ calls[2].data = Empty
C9_Witness ==
    /\ Called /\ First.kind = "text" /\ First.term = <<CR, LF>>
    /\ Len(First.m_data) > 1
    /\ Len(calls) >= 2 /\ calls[2].consumed = 1

(* C10: decode_msg on a complete frame followed by more input returns what
   it returns on the frame alone. *)
C10_SplitEquivalence ==
    (Called /\ Len(frames) >= 2 /\ First.kind \in {"ubx", "text", "rtcm3"}) =>
        Observable(FirstCall) = Observable(decode_msg(First.bytes))

(***************************************************************************)
(* Properties of the decoder's effect on the options and of the registry.  *)
(***************************************************************************)
\* the packets gps_send writes for a list of UBX-CFG-MSG payloads
Pkts(m_datas) == [k \in 1..Len(m_datas) |-> make_pkt(6, 1, m_datas[k])]

\* the call ended in the dispatch of a complete UBX frame
Dispatched(c) ==
    c.outcome \in {"raise", "hang"} \/ c.data.kind \in {"decoded", "raw", "hexdump"}

\* the call dispatched a UBX-CFG-VALGET frame that is an answer: payload of
\* 4 bytes or more, version byte not 0
ValgetAnswer(c) ==
    /\ Dispatched(c)
    /\ c.m_class = 6 /\ c.m_id = 139
    /\ Len(c.m_payload) >= 4 /\ c.m_payload[1] # 0

(* C11: decode_msg is a pure function of its buffer: no call changes
   opts['protver'], and the packets send_able_binary writes after the file
   was decoded are those of the protocol version set before decoding. *)
C11_DecodePure ==
    /\ \A k \in 1..Len(calls) : set_protver(calls[k].protver, calls[k]) = calls[k].protver
    /\ pc = "sent" =>
           sent = Pkts(send_able_binary(op.args[1], calls[1].protver))

(* C11 as amended: a call changes opts['protver'] only when it dispatches a
   UBX-CFG-VALGET answer, and then raises it to 27 if it was lower; the
   packets send_able_binary writes afterwards are those of the protocol
   version set before decoding, raised to 27 if a UBX-CFG-VALGET answer was
   decoded. *)
C11_DecodePureAmended ==
    /\ \A k \in 1..Len(calls) :
           set_protver(calls[k].protver, calls[k]) =
               IF ValgetAnswer(calls[k]) /\ calls[k].protver < 27
               THEN 27 ELSE calls[k].protver
    /\ pc = "sent" =>
           LET pv0 == calls[1].protver
               pv  == IF (\E k \in 1..Len(calls) : ValgetAnswer(calls[k])) /\ pv0 < 27
                      THEN 27 ELSE pv0
           IN  sent = Pkts(send_able_binary(op.args[1], pv))
C11_Witness ==
    /\ pc = "sent"
    /\ \E k \in 1..Len(calls) : ValgetAnswer(calls[k])
    /\ calls[1].protver < 27 /\ protver = 27
    /\ sent # Pkts(send_able_binary(op.args[1], calls[1].protver))

(* C12: a UBX header that announces more payload than the buffer holds
   makes decode_msg return (0, empty): the call comes back, raises nothing,
   and ends at no CR or LF among the payload bytes. *)
C12_Overlong ==
    (Called /\ First.kind = "overlong") =>
        /\ FirstCall.outcome = "return"
        /\ FirstCall.consumed = 0
        /\ FirstCall.data = Empty
        /\ FirstCall.stderr = 0
        /\ Len(calls) = 1 /\ pc \in {"done", "sent"}
C12_Witness ==
    /\ Called /\ First.kind = "overlong"
    /\ First.total = 65535 + 8
    /\ Len(First.m_data) = 17 /\ First.m_data[17] = CR
    /\ pc = "done" /\ FirstCall.consumed = 0

(* C13: cfg_by_key never fails: for a registered key it returns the item of
   the registry, for any other key the synthesized item. *)
C13_NeverFails ==
    (op.name = "cfg_by_key") =>
        LET key == op.args[1]
        IN  /\ op.outcome = "return"
            /\ key \in RegisteredKeys =>
                   (\E k \in 1..Len(cfgs) : cfgs[k] = op.result) /\ op.result.key = key
            /\ key \notin RegisteredKeys => op.result = fake_item(key)

(* C14: for a key in no item, the item cfg_by_key returns has the unsigned
   wire format whose width bits 28-30 of the key give: size class 0, 1, 2,
   6, 7 -> 1 byte, 3 -> 2, 4 -> 4, 5 -> 8. *)
ClassWidth ==
    (0 :> 1) @@ (1 :> 1) @@ (2 :> 1) @@ (3 :> 2) @@ (4 :> 4) @@ (5 :> 8)
    @@ (6 :> 1) @@ (7 :> 1)
C14_UnknownKeyWidth ==
    (op.name = "cfg_by_key" /\ op.args[1] \notin RegisteredKeys) =>
        /\ op.outcome = "return"
        /\ item_to_type(op.result)[1] = ClassWidth[key_size(op.args[1])]
        /\ item_to_type(op.result)[3] = "u"

(* C17: make_pkt(class, id, payload) returns len(payload) + 8 bytes: 0xB5,
   0x62, class, id, length low byte, length high byte, the payload
   unchanged, ck_a, ck_b, the last two being the checksum of the
   4 + len(payload) bytes from class to the end of the payload. *)
C17_MakePkt ==
    (op.name = "make_pkt") =>
        LET m_class == op.args[1]
            m_id    == op.args[2]
            m_data  == op.args[3]
            n       == Len(m_data)
            pkt     == op.result
        IN  /\ op.outcome = "return"
            /\ Len(pkt) = n + 8
            /\ SubSeq(pkt, 1, 6) =
                   <<181, 98, m_class, m_id, n % 256, (n \div 256) % 256>>
            /\ SubSeq(pkt, 7, n + 6) = m_data
            /\ <<pkt[n + 7], pkt[n + 8]>> = checksum(SubSeq(pkt, 3, n + 6), n + 4)
C17_Witness ==
    /\ op.name = "make_pkt" /\ op.outcome = "return"
    /\ Len(op.args[3]) = 300
    /\ op.result[5] = 44 /\ op.result[6] = 1
    /\ Len(op.result) = 308

(* C18: checksum(msg, n) is the 8-bit running sum of the first n bytes:
   from ck_a = ck_b = 0, for each byte c in order ck_a = (ck_a + c) mod 256
   and ck_b = (ck_b + ck_a) mod 256; both values are in 0..255. *)
RECURSIVE RunningSum(_, _)
RunningSum(msg, n) ==
    IF n = 0 THEN <<0, 0>>
    ELSE LET p    == RunningSum(msg, n - 1)
             ck_a == (p[1] + msg[n]) % 256
         IN  <<ck_a, (p[2] + ck_a) % 256>>
C18_Checksum ==
    (op.name = "checksum") =>
        LET msg == op.args[1]
            n   == Min(op.args[2], Len(msg))
        IN  /\ op.outcome = "return"
            /\ op.result = RunningSum(msg, n)
            /\ op.result[1] \in 0..255 /\ op.result[2] \in 0..255
C18_Witness ==
    /\ op.name = "checksum"
    /\ op.args[1] = <<255, 255, 128>> /\ op.args[2] = 3
    /\ op.result = <<126, 123>>

(* C19: a VALSET request that names an item in no registry entry fails
   before a byte is written to the transport, whatever the pairs before the
   unknown name are. *)
NamesUnknown(nvs) == \E k \in 1..Len(nvs) : ~cfg_by_name(nvs[k][1]).found
C19_FailFast ==
    (op.name \in {"set_item", "send_cfg_valset"} /\ NamesUnknown(op.args[1])) =>
        /\ op.outcome \in {"exit", "raise"}
        /\ op.result = <<>>
        /\ sent = <<>>
C19_Witness ==
    /\ op.name \in {"set_item", "send_cfg_valset"}
    /\ Len(op.args[1]) = 2
    /\ op.args[1][1] = <<"CFG-GEOFENCE-USE_PIO", 1>>
    /\ op.args[1][2][1] = "CFG-NOSUCH-ITEM"
    /\ op.outcome \in {"exit", "raise"}
    /\ sent = <<>>

(* C20: item_to_type gives every wire type its width and numeric kind:
   E1/L/U1/X1 1 unsigned, E2/U2/X2 2 unsigned, E4/U4/X4 4 unsigned, U8/X8 8
   unsigned, I1/I2/I4/I8 1/2/4/8 signed, R4 4 float, R8 8 float; and the
   width is the size of the pack format returned with it. *)
WireFormat ==
    [t \in {"E1", "L", "U1", "X1"} |-> <<1, "u">>]
    @@ [t \in {"E2", "U2", "X2"} |-> <<2, "u">>]
    @@ [t \in {"E4", "U4", "X4"} |-> <<4, "u">>]
    @@ [t \in {"U8", "X8"} |-> <<8, "u">>]
    @@ ("I1" :> <<1, "i">>) @@ ("I2" :> <<2, "i">>) @@ ("I4" :> <<4, "i">>)
    @@ ("I8" :> <<8, "i">>) @@ ("R4" :> <<4, "f">>) @@ ("R8" :> <<8, "f">>)
C20_WireFormat ==
    (op.name = "item_to_type" /\ op.args[1].type \in DOMAIN WireFormat) =>
        /\ op.result[1] = WireFormat[op.args[1].type][1]
        /\ op.result[3] = WireFormat[op.args[1].type][2]
        /\ op.result[1] = calcsize(op.result[2])

(***************************************************************************)
(* Properties of the payload decoders.  DecoderOf is the decoder the       *)
(* tables register for (class, id).                                        *)
(***************************************************************************)
DecoderOf(m_class, m_id) == classes[m_class].ids[m_id].dec

\* the size of the fixed part each decoder unpacks first
FixedSize ==
    ("ack_ack" :> 2) @@ ("cfg_cfg" :> 12) @@ ("cfg_msg" :> 2) @@ ("cfg_rst" :> 4)
    @@ ("cfg_valdel" :> 4) @@ ("cfg_valget" :> 4) @@ ("cfg_valset" :> 4)
    @@ ("nav_eoe" :> 4) @@ ("nav_geofence" :> 8) @@ ("nav_hpposecef" :> 28)
    @@ ("nav_hpposllh" :> 36) @@ ("nav_posecef" :> 20) @@ ("nav_sig" :> 8)
    @@ ("nav_pvt" :> 84)

(* C15: a registered decoder given a payload that is not empty and shorter
   than the fixed part of its message returns Bad Length with the length of
   the payload, and unpacks nothing. *)
C15_BadLength ==
    (/\ Called /\ First.kind = "ubx"
     /\ HasDecoder(First.m_class, First.m_id)
     /\ Len(First.m_data) > 0
     /\ Len(First.m_data) < FixedSize[DecoderOf(First.m_class, First.m_id)]) =>
        /\ FirstCall.outcome = "return"
        /\ FirstCall.data.kind = "decoded"
        /\ FirstCall.data.msg.kind = "badlen"
        /\ FirstCall.data.msg.len = Len(First.m_data)
        /\ FirstCall.data.msg.u = <<>>

NoPollForm ==
    {"ack_ack", "cfg_cfg", "cfg_msg", "cfg_rst", "cfg_valdel", "cfg_valget",
     "cfg_valset", "nav_eoe"}
WithKey(key) == {k \in 1..Len(cfgs) : cfgs[k].key = key}
WithName(name) == {k \in 1..Len(cfgs) : cfgs[k].name = name}

(* C21: lookup symmetry.  cfg_by_key of a registered key returns an item
   whose name is that of every entry with the key, and looked up by that
   name it gives the key back; cfg_by_name likewise; and the registry has
   one entry with the key, one with the name. *)
C21_LookupSymmetry ==
    /\ (op.name = "cfg_by_key" /\ op.outcome = "return") =>
           /\ \A k \in WithKey(op.args[1]) : cfgs[k].name = op.result.name
           /\ cfg_by_name(op.result.name).item.key = op.args[1]
           /\ Cardinality(WithKey(op.args[1])) = 1
    /\ (op.name = "cfg_by_name" /\ op.result.found) =>
           /\ \A k \in WithName(op.args[1]) : cfgs[k].key = op.result.item.key
           /\ cfg_by_key(op.result.item.key).item.name = op.args[1]
           /\ Cardinality(WithName(op.args[1])) = 1

\* the same without the two counts
C21_SymmetryAlone ==
    /\ (op.name = "cfg_by_key" /\ op.outcome = "return") =>
           /\ \A k \in WithKey(op.args[1]) : cfgs[k].name = op.result.name
           /\ cfg_by_name(op.result.name).item.key = op.args[1]
    /\ (op.name = "cfg_by_name" /\ op.result.found) =>
           /\ \A k \in WithName(op.args[1]) : cfgs[k].key = op.result.item.key
           /\ cfg_by_key(op.result.item.key).item.name = op.args[1]

\* where the buffer of a call starts in the file, and the state each byte
\* the call scanned was taken in
Offset(c) == Len(Flatten(frames)) - Len(c.buf)
Modes(c) == ScanModes(c.buf, 0, Locals0)
LeadIns == {SYNC1, DOLLAR, LBRACE, HASH, RTCM3_LEADER}

\* the bytes of the file a call took as the lead-in of a frame
LeadInAt(c) ==
    LET m == Modes(c)
    IN  {Offset(c) + i : i \in {j \in 1..Len(m) :
                                   m[j] = "BASE" /\ c.buf[j] \in LeadIns}}

\* the bytes of the file a call scanned inside a frame or dropped as noise
ScannedInside(c) ==
    LET m == Modes(c)
    IN  {Offset(c) + i : i \in {j \in 1..Len(m) :
                                   \/ m[j] # "BASE"
                                   \/ c.buf[j] \notin LeadIns \cup {CR, LF}}}

(* C23: no backtracking.  A byte of the file that a call scanned in a state
   other than BASE, or dropped as noise, is taken as the lead-in of a frame
   by no call, the same or a later one. *)
C23_NoBacktracking ==
    \A j \in 1..Len(calls) :
        LET inside == ScannedInside(calls[j])
        IN  \A k \in j..Len(calls) : inside \cap LeadInAt(calls[k]) = {}

(* C24: a call that returns consumed = n > 0 scanned n bytes, and
   decode_msg on the first n bytes of its buffer returns the same pair. *)
C24_PrefixDetermines ==
    \A k \in 1..Len(calls) :
        (calls[k].outcome = "return" /\ calls[k].consumed > 0) =>
            /\ Len(Modes(calls[k])) = calls[k].consumed
            /\ Observable(decode_msg(SubSeq(calls[k].buf, 1, calls[k].consumed)))
                   = Observable(calls[k])

\* a complete UBX frame with a registered decoder, or a line
Deliverable(a) ==
    \/ a.kind = "ubx" /\ a.good /\ HasDecoder(a.m_class, a.m_id)
    \/ a.kind = "text"
IsMessage(data) == data.kind # "empty"

(* C25: in-order, exactly-once delivery.  On a file of complete UBX frames
   with registered decoders and of lines, the caller loop ends, the data it
   collected that are not empty are the frames and lines of the file, one
   each and in file order, and nothing of the file is left. *)
C25_ExactlyOnce ==
    (\A k \in 1..Len(frames) : Deliverable(frames[k])) =>
        /\ pc \notin {"raised", "hung"}
        /\ pc \in {"done", "sent"} =>
               LET emitted == SelectSeq(gnss_data, IsMessage)
               IN  /\ out = <<>>
                   /\ Len(emitted) = Len(frames)
                   /\ \A k \in 1..Len(frames) :
                          IF frames[k].kind = "text"
                          THEN emitted[k] = Text(frames[k].m_data)
                          ELSE Recovers(emitted[k], frames[k].m_class,
                                        frames[k].m_id, frames[k].m_data)

(* C26: a call that returns, returns 0 <= consumed <= len(buffer), and
   consumed = 0 comes with the empty result only. *)
C26_ConsumedRange ==
    \A k \in 1..Len(calls) :
        calls[k].outcome = "return" =>
            /\ 0 <= calls[k].consumed
            /\ calls[k].consumed <= Len(calls[k].buf)
            /\ calls[k].consumed = 0 => calls[k].data = Empty
C26_Witness ==
    /\ Len(calls) >= 2
    /\ calls[1].outcome = "return" /\ calls[1].data.kind = "text"
    /\ calls[1].consumed >= 1
    /\ calls[2].outcome = "return" /\ calls[2].consumed = 0
    /\ calls[2].buf # <<>> /\ calls[2].data = Empty

(* C27: when a UBX frame is dispatched the payload has as many bytes as the
   two length bytes say, low byte first; the frame is the 8 + length bytes
   that end with the last byte scanned; the checksum diagnostic is written
   when and only when the checksum of class, id, length and payload, 4 +
   length bytes, differs from the two bytes that follow them; and a length
   of 0 makes a frame of 8 bytes.  A file that starts with a complete UBX
   frame has that frame dispatched by the first call. *)
C27_FrameLength ==
    /\ \A k \in 1..Len(calls) :
           Dispatched(calls[k]) =>
               LET c == calls[k]
                   n == Len(Modes(c))
               IN  /\ Len(c.m_payload) = c.m_len
                   /\ n >= 8 + c.m_len
                   /\ c.m_len = c.buf[n - (c.m_len + 3)]
                                    + (256 * c.buf[n - (c.m_len + 2)])
                   /\ SubSeq(c.buf, n - (c.m_len + 7), n)
                          = ((<<SYNC1, SYNC2, c.m_class, c.m_id,
                                c.m_len % 256, c.m_len \div 256>>
                              \o c.m_payload) \o <<c.m_ck_a, c.m_ck_b>>)
                   /\ c.m_raw = SubSeq(c.buf, n - (c.m_len + 5), n - 2)
                   /\ (c.stderr = 0) <=>
                          (checksum(SubSeq(c.buf, n - (c.m_len + 5), n - 2),
                                    4 + c.m_len) = <<c.buf[n - 1], c.buf[n]>>)
    /\ (Called /\ First.kind = "ubx") =>
           /\ Dispatched(FirstCall)
           /\ FirstCall.m_payload = First.m_data
           /\ Len(Modes(FirstCall)) = 8 + Len(First.m_data)
C27_Witness ==
    /\ Len(calls) >= 2
    /\ Dispatched(calls[1]) /\ calls[1].m_len = 0 /\ calls[1].consumed = 8
    /\ Dispatched(calls[2]) /\ calls[2].m_len > 0
    /\ CR \in {calls[2].m_payload[i] : i \in 1..Len(calls[2].m_payload)}


(***************************************************************************)
(* UBX-NAV-HPPOSLLH scaling.  Represents(v, a, b, per): the scaled value v *)
(* is a + b / per exactly, in units of 1 / per.                            *)
(***************************************************************************)
Represents(v, a, b, per) ==
    /\ v.per = per /\ 0 <= v.frac /\ v.frac < per
    /\ ((v.int - a) * per) + v.frac = b

IsHpposllh(a) == a.kind = "ubx" /\ a.m_class = 1 /\ a.m_id = 20 /\ Len(a.m_data) = 36

(* C22: the decoder of UBX-NAV-HPPOSLLH returns the fields of the message
   and, for longitude and latitude, the 1e-7 degree value plus the
   high-precision part in 1e-9 degrees: prec_lon is lon + lonHp / 100 and
   prec_lat is lat + latHp / 100, in units of 1e-7 degrees, with lonHp and
   latHp read as signed bytes. *)
C22_HpposllhScaling ==
    (Called /\ IsHpposllh(First)) =>
        \A lon \in HpDegrees, lat \in {-900000000, 488000000},
           lonHp \in HpParts, latHp \in {-45, 45} :
            First = HpposllhItem(lon, lat, lonHp, latHp) =>
                /\ FirstCall.outcome = "return"
                /\ FirstCall.data.type = "UBX-NAV-HPPOSLLH"
                /\ FirstCall.data.msg.lon = lon
                /\ FirstCall.data.msg.lat = lat
                /\ FirstCall.data.msg.lonHp = lonHp
                /\ FirstCall.data.msg.latHp = latHp
                /\ Represents(FirstCall.data.msg.prec_lon, lon, lonHp, 100)
                /\ Represents(FirstCall.data.msg.prec_lat, lat, latHp, 100)

\* lon -741234567 with lonHp -23 has been decoded to -74.123456723 degrees
C22_Witness ==
    /\ Called /\ IsHpposllh(First)
    /\ First = HpposllhItem(-741234567, 488000000, -23, 45)
    /\ FirstCall.outcome = "return"
    /\ FirstCall.data.msg.prec_lon = [int |-> -741234568, frac |-> 77, per |-> 100]
    /\ FirstCall.data.msg.prec_lat = [int |-> 488000000, frac |-> 45, per |-> 100]

(***************************************************************************)
(* The converter.  The file has been converted when the pos file is        *)
(* written.                                                                *)
(***************************************************************************)
Converted == pc = "written"

\* the message is in a group that was yielded
InGroup(sentence, g) ==
    sentence.type \in DOMAIN g.group /\ g.group[sentence.type] = sentence.msg

(* C28: iTow_group_generator delivers every message it reads: once the file
   is converted, each message the reader yielded is in a group that was
   yielded, the last group included. *)
C28_EveryMessageGrouped ==
    Converted =>
        \A k \in 1..Len(sentences) :
            \E j \in 1..Len(groups) : InGroup(sentences[k], groups[j])

\* the complete frames of the file that pass the type filter
Filtered(a) ==
    a.kind = "ubx" /\ a.good /\ a.m_class = 1 /\ a.m_id \in {7, 20}
PassingFrames == SelectSeq(frames, Filtered)

(* C29: ubx_read_generator yields every complete frame of the file that
   passes the type filter: once the file is converted, the messages yielded
   are the NAV-PVT and NAV-HPPOSLLH frames of the file, one each and in file
   order, whatever lies between them. *)
C29_EveryFrameYielded ==
    Converted =>
        /\ Len(sentences) = Len(PassingFrames)
        /\ \A k \in 1..Len(sentences) :
               sentences[k].type = classes[1].ids[PassingFrames[k].m_id].name

\* the carrier solution the bits 6 and 7 of flags name
CarrierSolution(flags) ==
    IF bit(flags, 128) THEN "Fixed" ELSE IF bit(flags, 64) THEN "Float" ELSE "False"

(* C30: NAV-PVT decoding maps the carrier-solution bits of flags to three
   values, Float for bit 6 alone, Fixed for bit 7, False for neither, and
   the line of the pos file made of the message has quality 2 for Float, 1
   for Fixed and 5 otherwise. *)
C30_CarrierSolution ==
    \A k \in 1..Len(groups) :
        groups[k].how = "line" =>
            /\ groups[k].group["UBX-NAV-PVT"].carrSoln
                   = CarrierSolution(groups[k].group["UBX-NAV-PVT"].flags)
            /\ pos_lines[groups[k].line].Q
                   = sol_type(CarrierSolution(groups[k].group["UBX-NAV-PVT"].flags))

(***************************************************************************)
(* send_able_binary and the protocol version.                              *)
(***************************************************************************)
\* the call sent the UBX-CFG-MSG rate-set of message (1, m_id) with this rate
RateSet(m_id, rate) ==
    \E k \in 1..Len(op.result) :
        /\ op.result[k] = <<1, m_id, rate>>
        /\ k <= Len(sent) /\ sent[k] = make_pkt(6, 1, <<1, m_id, rate>>)
\* the call sent a rate-set of message (1, m_id)
RateSetOf(m_id) == \E k \in 1..Len(op.result) : op.result[k][2] = m_id

(* C31: send_able_binary follows the protocol-version policy for every
   protver: it sends the rate-set of NAV-PVT and none of NAV-SOL exactly
   when protver >= 15, and that of NAV-SOL and none of NAV-PVT otherwise;
   enabling, it sets NAV-SAT to the rate of the satellite messages and
   NAV-SVINFO to 0 or not at all exactly when protver >= 15, and NAV-SVINFO
   to that rate and NAV-SAT to 0 otherwise; it sends a rate-set of NAV-EOE
   exactly when protver >= 18.  The packets written are these rate-sets. *)
C31_ProtverPolicy ==
    op.name = "send_able_binary" =>
        LET rate   == IF op.args[1] THEN 1 ELSE 0
            rate_s == IF op.args[1] THEN 10 ELSE 0
        IN  /\ Len(sent) = Len(op.result)
            /\ RateSet(7, rate) <=> protver >= 15
            /\ RateSetOf(7) <=> protver >= 15
            /\ RateSet(6, rate) <=> protver < 15
            /\ RateSetOf(6) <=> protver < 15
            /\ RateSet(53, rate_s) <=> (protver >= 15 \/ ~op.args[1])
            /\ RateSet(48, rate_s) <=> (protver < 15 \/ (~op.args[1] /\ protver < 27))
            /\ protver >= 15 => ~RateSetOf(48) \/ RateSet(48, 0)
            /\ protver < 15 => RateSet(53, 0)
            /\ RateSet(97, rate) <=> protver >= 18
            /\ RateSetOf(97) <=> protver >= 18

\* enabling at protocol version 18: NAV-PVT, NAV-SAT every 10 and NAV-EOE
C31_Witness ==
    /\ op.name = "send_able_binary" /\ op.args[1] /\ protver = 18
    /\ RateSet(7, 1) /\ RateSet(53, 10) /\ RateSet(48, 0) /\ RateSet(97, 1)
    /\ ~RateSetOf(6)

(***************************************************************************)
(* RTCM3 framing, read off the state each byte of a call was taken in.     *)
(***************************************************************************)
\* the call took byte j of its buffer as the leader of an RTCM3 frame
LeaderAt(c, m, j) == j <= Len(m) /\ m[j] = "BASE" /\ c.buf[j] = RTCM3_LEADER
\* the 10-bit length after the leader at j
RtcmLength(c, j) == ((c.buf[j + 1] % 4) * 256) + c.buf[j + 2]
\* the call took every byte of its buffer up to byte k, or to the end
TakenTo(c, m, k) == Len(m) >= (IF k < Len(c.buf) THEN k ELSE Len(c.buf))

\* what follows a leader at j whose next byte has one of its top 6 bits set
Resync(c, m, j) ==
    /\ TakenTo(c, m, j + 1)
    /\ j + 1 <= Len(m) => m[j + 1] = "RTCM3_1"
    /\ j + 2 <= Len(m) => m[j + 2] = "BASE"

\* what follows a leader at j and a length L: L + 3 bytes, then BASE
Framed(c, m, j, L) ==
    /\ TakenTo(c, m, j + 5 + L)
    /\ m[j + 1] = "RTCM3_1" /\ m[j + 2] = "RTCM3_2"
    /\ \A i \in (j + 3)..(j + 5 + L) : i <= Len(m) => m[i] = "RTCM3_PAYLOAD"
    /\ j + 6 + L <= Len(m) => m[j + 6 + L] = "BASE"

RtcmFraming(c) ==
    \A m \in {Modes(c)} :
        \A j \in 1..Len(m) :
            LeaderAt(c, m, j) =>
                IF j + 1 > Len(c.buf) THEN TRUE
                ELSE IF c.buf[j + 1] \div 4 # 0 THEN Resync(c, m, j)
                ELSE IF j + 2 > Len(c.buf) THEN TakenTo(c, m, j + 1)
                ELSE Framed(c, m, j, RtcmLength(c, j))

(* C32: RTCM3 framing.  After 0xD3 taken in BASE, a next byte with one of
   its top 6 bits set sends the decoder back to BASE; otherwise the length L
   is the 10-bit value of the low 2 bits of that byte and the byte after
   it, the decoder takes L payload bytes and 3 CRC bytes, 3 + L + 3 bytes
   in all, and is in BASE for the byte after them. *)
C32_RtcmFraming == \A k \in 1..Len(calls) : RtcmFraming(calls[k])

\* a frame of 258 payload bytes was taken, and the byte after it in BASE
C32_Witness ==
    /\ Called
    /\ First = RtcmRun(1, 2, 261, <<0>>)
    /\ Len(Modes(FirstCall)) = 265
    /\ Modes(FirstCall)[264] = "RTCM3_PAYLOAD"
    /\ Modes(FirstCall)[265] = "BASE"
    /\ FirstCall.consumed = 0

(***************************************************************************)
(* Line terminators outside a frame.                                       *)
(***************************************************************************)
\* byte j of the call's buffer is a CR or LF taken in BASE
StrayTerminatorAt(c, m, j) == m[j] = "BASE" /\ c.buf[j] \in {CR, LF}

(* C34: a CR or LF met while the decoder is in BASE ends the call there,
   and the call returns (1, empty), whatever number of bytes it took
   before. *)
C34_StrayTerminator ==
    \A k \in 1..Len(calls) :
        \A m \in {Modes(calls[k])} :
            \A j \in 1..Len(m) :
                StrayTerminatorAt(calls[k], m, j) =>
                    /\ j = Len(m)
                    /\ calls[k].outcome = "return"
                    /\ calls[k].consumed = 1
                    /\ calls[k].data = Empty

\* an RTCM3 frame of 7 bytes, then LF: 8 bytes taken, 1 returned
C34_Witness ==
    /\ Called
    /\ First = RtcmRun(0, 1, 4, <<LF>>)
    /\ Len(Modes(FirstCall)) = 8
    /\ StrayTerminatorAt(FirstCall, Modes(FirstCall), 8)
    /\ FirstCall.consumed = 1 /\ FirstCall.data = Empty

(***************************************************************************)
(* The groups of iTow_group_generator.                                     *)
(***************************************************************************)
\* the messages of a group, its 'iTow' entry apart
MessagesOf(group) == {group[key] : key \in DOMAIN group \ {"iTow"}}

\* the iTow of the messages the reader yielded that the grouping took
IsTaken(sentence) == is_dict(sentence.msg) /\ has_iTow(sentence.msg)
TakenITows ==
    [k \in 1..Len(SelectSeq(sentences, IsTaken)) |->
        SelectSeq(sentences, IsTaken)[k].msg.iTow]

\* a sequence with each run of equal values reduced to one
RECURSIVE Runs(_)
Runs(seq) ==
    IF Len(seq) <= 1 THEN seq
    ELSE IF seq[1] = seq[2] THEN Runs(Tail(seq))
    ELSE <<seq[1]>> \o Runs(Tail(seq))

(* C33: every group yielded by iTow_group_generator is homogeneous: its
   'iTow' entry is the iTow of every message in it that has one; and a
   message of another iTow starts a new group: the groups yielded are, in
   order, the runs of equal iTow of the messages read, the run still being
   accumulated apart. *)
C33_HomogeneousGroups ==
    /\ \A k \in 1..Len(groups) :
           /\ "iTow" \in DOMAIN groups[k].group
           /\ \A msg \in MessagesOf(groups[k].group) :
                  has_iTow(msg) => msg.iTow = groups[k].group["iTow"]
    /\ Len(TakenITows) > 0 =>
           /\ Len(groups) = Len(Runs(TakenITows)) - 1
           /\ \A k \in 1..Len(groups) :
                  groups[k].group["iTow"] = Runs(TakenITows)[k]

\* NAV-PVT and NAV-HPPOSLLH of iTow 100 were yielded as one group when a
\* message of iTow 200 came
C33_Witness ==
    /\ Len(groups) = 1
    /\ DOMAIN groups[1].group = {"iTow", "UBX-NAV-PVT", "UBX-NAV-HPPOSLLH"}
    /\ groups[1].group["iTow"] = 100
    /\ timestamp = 200
    /\ sentences_group["iTow"] = 200

(***************************************************************************)
(* The time of a pos line.                                                 *)
(***************************************************************************)
\* the microseconds from the start of the second of NAV-PVT to the time
\* written in the line
WrittenOffset(line, pvt) ==
    (((line.time.second + line.carry) - pvt.second) * 1000000)
        + line.time.microsecond

(* C35: convert_to_pos_line writes the point time rounded to the nearest
   millisecond: the time written is in the minute of the point time, it
   differs from the point time, the second of NAV-PVT plus nano, by 500
   microseconds at most, and its fraction is a whole number of
   milliseconds. *)
C35_MillisecondRounding ==
    \A k \in 1..Len(groups) :
        groups[k].how = "line" =>
            LET pvt  == groups[k].group["UBX-NAV-PVT"]
                line == pos_lines[groups[k].line]
            IN  /\ line.time.minute = pvt.minute /\ line.time.hour = pvt.hour
                /\ line.time.microsecond % 1000 = 0
                /\ (WrittenOffset(line, pvt) * 1000) - pvt.nano <= 500000
                /\ pvt.nano - (WrittenOffset(line, pvt) * 1000) <= 500000

(***************************************************************************)
(* round_time.  Times are compared as (seconds, microsecond).              *)
(***************************************************************************)
Before(a, b) ==
    a.seconds < b.seconds \/ (a.seconds = b.seconds /\ a.microsecond < b.microsecond)
\* dt + date_delta and dt - date_delta
Plus(dt, d) ==
    [seconds |-> dt.seconds + d.seconds
                     + ((dt.microsecond + d.microseconds) \div 1000000),
     microsecond |-> (dt.microsecond + d.microseconds) % 1000000]
Minus(dt, d) ==
    [seconds |-> (dt.seconds - d.seconds)
                     + ((dt.microsecond - d.microseconds) \div 1000000),
     microsecond |-> (dt.microsecond - d.microseconds) % 1000000]
\* the time is a multiple of date_delta, counted from midnight
OnMultiple(t, d) ==
    IF d.microseconds = 0 THEN t.microsecond = 0 /\ t.seconds % d.seconds = 0
    ELSE t.microsecond % d.microseconds = 0
TimeOf(r) == [seconds |-> r.seconds, microsecond |-> r.microsecond]

(* C36: round_time(dt, date_delta, to) returns a time that is a multiple of
   date_delta counted from midnight of the day of dt and less than one
   date_delta away from dt, for each mode; with to = 'up' it is not before
   dt, with to = 'down' not after dt, and a dt already on a multiple is
   returned unchanged. *)
C36_RoundTime ==
    (op.name = "round_time" /\ op.args[1] # None) =>
        /\ op.outcome = "return"
        /\ OnMultiple(TimeOf(op.result), op.args[2])
        /\ Before(Minus(op.args[1], op.args[2]), TimeOf(op.result))
        /\ Before(TimeOf(op.result), Plus(op.args[1], op.args[2]))
        /\ op.args[3] = "up" => ~Before(TimeOf(op.result), op.args[1])
        /\ op.args[3] = "down" => ~Before(op.args[1], TimeOf(op.result))
        /\ OnMultiple(op.args[1], op.args[2]) => TimeOf(op.result) = op.args[1]
====
